---- MODULE Spec2Model ----
(***************************************************************************)
(* Ingestion pipeline of the multi-chain transaction dashboard: the        *)
(* per-provider page loops (Celestia/Celenium, NEAR/Pikespeak, Osmosis     *)
(* LCD multi-query, Ronin/GoldRush, the Blockscout explorer client, Celo/  *)
(* Etherscan v2, Tezos/TzKT, and the single-page Osmosis LCD fallback) and *)
(* the aggregation tail of each fetchAll (merge, sort, metadata).          *)
(*                                                                         *)
(* Spec     : the page loops, with page contents abstracted to counts.     *)
(* SpecAgg  : the aggregation tails, on concrete records (hash, time).     *)
(***************************************************************************)
EXTENDS Integers, Sequences, FiniteSets, TLC

\* ------------------------------------------------------------------ bounds
\* One PageUnit of model pages stands for 50 pages of the source: the
\* adapters' page limits are 50 (PageUnit) and 100 (2 * PageUnit).
PageUnit == 2
\* Records in a full model page (the source asks for 50, 100 or 1000).
PageSize == 2
\* Osmosis query types modelled (the source declares 23).
NumQueries == 2
\* Cap of the ghost counter of consecutive failed requests of one page.
FailCap == 4
\* Largest on-chain timestamp of a delivered record (SpecAgg).
MaxTs == 2
\* Distinct transaction hashes a provider can deliver (SpecAgg).
NumHashes == 2
\* Records delivered over a whole fetch (SpecAgg).
MaxDelivered == 3

\* --------------------------------------------------------- program constants
NumEndpoints == 3           \* LCD_ENDPOINTS.length
MaxConsecutiveErrors == 3   \* consecutiveErrors >= 3

CelestiaMaxPages == PageUnit        \* maxPages = 50
RoninMaxPages == PageUnit           \* maxPages = 50
TezosMaxPages == PageUnit           \* MAX_PAGES = 50
NearMaxPages == 2 * PageUnit        \* MAX_PAGES = 100
CeloMaxPages == 2 * PageUnit        \* MAX_PAGES = 100
ExplorerMaxPages == 2 * PageUnit    \* if (page > 100) break
\* The Osmosis multi-query loop declares no limit; the model stops one page
\* past the largest limit any adapter declares.
OsmosisPageCap == 2 * PageUnit + 1

Adapters == {"celestia", "near", "osmosis", "ronin", "explorer", "celo", "tezos", "lcd"}

NumBranches(a) ==
  CASE a \in {"celestia", "near", "ronin", "explorer"} -> 1
    [] a \in {"celo", "lcd"} -> 2
    [] a = "tezos" -> 3
    [] a = "osmosis" -> NumQueries

MaxBranches == IF NumQueries > 3 THEN NumQueries ELSE 3
Branches == 1..MaxBranches

\* -------------------------------------------------------------------- state
VARIABLES
  adapter,      \* the provider adapter whose fetchAll runs
  phase,        \* "run" while fetchAll is pending, "done" once it settled
  ep,           \* index of the LCD endpoint being tried (osmosis, lcd)
  osm,          \* osmosis: the state shared by its query loops (see NewOsm)
  br,           \* per query branch: the loop's locals and ghost counters
  outcome,      \* "pending" | "returned" | "error"
  meta,         \* the metadata object of a returned result
  resultCount,  \* transactions.length of a returned result
  delivered,    \* SpecAgg: the provider records of the successful pages
  transactions, \* SpecAgg: the transaction list fetchAll returns
  pace,         \* ghost: the latest page request and the waits around it
  progress,     \* the count last passed to onProgress (0: not called yet)
  cache,        \* SpecTok: the module's tokenMetadataCache, by lowercased address
  resolved,     \* SpecTok, ghost: the lookups made so far and their results
  submit,       \* SpecSubmit: the form handler, the address typed and the one sent
  tx,           \* SpecParse, SpecAmt: the argument of the function under study
  parsed,       \* SpecParse, SpecAmt, SpecCsv: its result, a ParsedTransaction
  rows,         \* SpecCsv: the AwakenTaxRow list of convertToAwakenCSV
  csv,          \* SpecCsv: the text of generateCSVContent
  tick          \* SpecLive, ghost: parity of the number of page requests sent

vars == <<adapter, phase, ep, osm, br, outcome, meta, resultCount, delivered, transactions,
          pace, progress, cache, resolved, submit, tx, parsed, rows, csv, tick>>

NoMeta == [dataSource |-> "none"]

\* pace describes the latest page request: by, the branch that issued it
\* (0: none yet, or none yet to this endpoint); answer, what came back
\* ("full", "short" or "empty" page, or "fail"); delayed, whether the loop
\* executed a wait after handling that answer; rested, whether a wait
\* separated this request from the previous one to the same provider.
NoPace == [by |-> 0, answer |-> "none", delayed |-> FALSE, rested |-> TRUE]

\* Token contract addresses as providers spell them, by short stand-ins:
\* "0xAA" and "0xaa" differ in letter case only.
Spellings == {"0xAA", "0xaa", "0xbb"}

\* contractAddress?.toLowerCase() || ""
Lower(c) == IF c = "0xAA" THEN "0xaa" ELSE c

NoEntry == [symbol |-> "(absent)", decimals |-> 0]
NoCache == [k \in {Lower(c) : c \in Spellings} |-> NoEntry]

\* No transaction handed to a parser, no result yet.
NoTx == [chain |-> "none"]

\* No form submitted: fetchAll is called as such.
NoSubmit == [handler |-> "none", typed |-> "", sent |-> "(none)", error |-> "none"]

\* Osmosis: the allTransactions map (its size, and whether a timestamp in it
\* does not parse), endpointSuccess, lastSuccessfulEndpoint (0: the empty
\* string) and queriesWithData.length.
NewOsm ==
  [size |-> 0, bad |-> FALSE, endpointSuccess |-> FALSE, lastSuccessfulEndpoint |-> 0,
   queriesWithData |-> 0]

\* ---------------------------------------------------------- provider answers
\* kind: "ok" is HTTP 200 with a well-formed body holding n records;
\* "h429" a rate-limit answer, "h500" HTTP 500, "hOther" any other non-2xx
\* status, "neterr" a rejected fetch, "badbody" HTTP 200 whose body does not
\* parse, "apierr" HTTP 200 whose body is an error object instead of a page.
\* badAt > 0: the badAt-th record's timestamp is "missing" or "unparsable".
FailureKinds == {"h429", "h500", "hOther", "neterr", "badbody", "apierr"}

Responses ==
  [kind : FailureKinds, n : {0}, badAt : {0}, badKind : {"none"}]
  \cup [kind : {"ok"}, n : 0..PageSize, badAt : {0}, badKind : {"none"}]
  \cup { r \in [kind : {"ok"}, n : 1..PageSize, badAt : 1..PageSize,
                badKind : {"missing", "unparsable"}] : r.badAt <= r.n }

\* The answers told apart by a loop that keeps every record of a batch as it
\* came (no per-record conversion): which record carries the bad timestamp,
\* and whether it is missing or unparsable, makes no difference to it.
BatchAnswers == { r \in Responses : r.badAt <= 1 /\ r.badKind # "missing" }

\* The locals of one page loop. page/hasMore/consecutiveErrors/total are the
\* code's variables (page is offset / limit where the code keeps an offset);
\* acc is allTransactions.length; bad says an accumulated record carries a
\* timestamp that does not parse; pages, fails and status are ghosts: pages
\* consumed, requests of the current page that failed in a row with an HTTP
\* error status or a rejected fetch (a failure that ends the loop is counted
\* whatever its kind), and why the loop ended ("exhausted": the provider
\* signalled the end, "failed": a failed page, "limit": the page limit,
\* "threw": the loop raised).
NewBranch(firstPage, st) ==
  [page |-> firstPage, hasMore |-> TRUE, consecutiveErrors |-> 0, total |-> 0,
   acc |-> 0, bad |-> FALSE, pages |-> 0, fails |-> 0, status |-> st]

Ended == {"exhausted", "failed", "limit", "threw"}

\* A consumed page whose cursor skips the page after it.
ConsumedSkipping(s, n, isBad, hm, go) ==
  [s EXCEPT !.acc = @ + n, !.bad = @ \/ isBad, !.hasMore = hm, !.page = @ + 2,
            !.pages = @ + 1, !.fails = 0, !.consecutiveErrors = 0,
            !.status = IF ~hm THEN "exhausted" ELSE IF go THEN "active" ELSE "limit"]

\* A consumed page: n records pushed, cursor advanced, hasMore recomputed.
Consumed(s, n, isBad, hm, go) ==
  [s EXCEPT !.acc = @ + n, !.bad = @ \/ isBad, !.hasMore = hm, !.page = @ + 1,
            !.pages = @ + 1, !.fails = 0, !.consecutiveErrors = 0,
            !.status = IF ~hm THEN "exhausted" ELSE IF go THEN "active" ELSE "limit"]

Failed(s) == [s EXCEPT !.status = "failed", !.fails = @ + 1]
Retry(s) == [s EXCEPT !.fails = @ + 1]
NoMore(s) == [s EXCEPT !.hasMore = FALSE, !.status = "exhausted", !.fails = 0]

\* ------------------------------------------------------- Celestia (Celenium)
CelestiaLoop(hm, pg) == hm /\ pg < CelestiaMaxPages

\* convertMessageToTransaction: timestamp: item.time || new Date().toISOString()
\* (a missing time becomes the fetch time; an unparsable string is kept).
CelestiaBody(s, r) ==
  IF r.kind = "h429" THEN Retry(s)
  ELSE IF r.kind # "ok" THEN Failed(s)
  ELSE IF r.n = 0 THEN NoMore(s)
  ELSE Consumed(s, r.n, r.badKind = "unparsable", r.n = PageSize,
                CelestiaLoop(r.n = PageSize, s.page + 1))

\* ----------------------------------------------------------- NEAR (Pikespeak)
NearLoop(hm, pg) == hm /\ pg <= NearMaxPages

\* A failure with nothing accumulated is rethrown; otherwise the loop breaks.
ThrowIfEmpty(s) ==
  IF s.acc = 0 THEN [s EXCEPT !.status = "threw", !.fails = @ + 1] ELSE Failed(s)

\* convertPikespeakToChainTransaction: new Date(timestampMs).toISOString()
\* raises on a timestamp that is no number; the records before it are kept.
NearBody(s, r) ==
  IF r.kind \in {"h429", "h500", "hOther", "neterr", "badbody"} THEN ThrowIfEmpty(s)
  ELSE IF r.kind = "apierr" \/ r.n = 0 THEN NoMore(s)
  ELSE IF r.badAt > 0 THEN ThrowIfEmpty([s EXCEPT !.acc = @ + (r.badAt - 1)])
  ELSE Consumed(s, r.n, FALSE, r.n = PageSize, NearLoop(r.n = PageSize, s.page + 1))

\* ------------------------------------------------------------ Ronin (GoldRush)
RoninLoop(hm, pg) == hm /\ pg < RoninMaxPages

\* A loop body that keeps hasMore true after any non-empty page.
RoninBodyIgnoresLength(s, r) ==
  IF r.kind # "ok" THEN Failed(s)
  ELSE IF r.n = 0 THEN NoMore(s)
  ELSE Consumed(s, r.n, r.badKind = "unparsable", TRUE, RoninLoop(TRUE, s.page + 1))

\* convertRESTTransaction: timestamp: item.block_signed_at || new Date().toISOString()
RoninBody(s, r) ==
  IF r.kind # "ok" THEN Failed(s)
  ELSE IF r.n = 0 THEN NoMore(s)
  ELSE Consumed(s, r.n, r.badKind = "unparsable", r.n = PageSize,
                RoninLoop(r.n = PageSize, s.page + 1))

\* ------------------------------------------------- Blockscout explorer client
\* while (hasMore) { ...; page++; if (page > 100) break; }
ExplorerLoop(hm, pg) == hm /\ ~(pg > ExplorerMaxPages)

ExplorerBody(s, r) ==
  IF r.kind # "ok" THEN ThrowIfEmpty(s)
  ELSE IF r.n = 0 THEN NoMore(s)
  ELSE IF r.badAt > 0 THEN ThrowIfEmpty([s EXCEPT !.acc = @ + (r.badAt - 1)])
  ELSE Consumed(s, r.n, FALSE, r.n = PageSize, ExplorerLoop(r.n = PageSize, s.page + 1))

\* -------------------------------------------------------- Celo (Etherscan v2)
\* A loop guard that lets one page too many through.
CeloLoopOffByOne(hm, pg) == hm /\ pg <= CeloMaxPages + 1

CeloLoop(hm, pg) == hm /\ pg <= CeloMaxPages

\* fetchAllRegularTransactions and fetchAllTokenTransfers share the loop. The
\* body is parsed whatever the HTTP status; anything but status "1" breaks,
\* Etherscan's "No transactions found" (status "0", empty result) included.
\* Records are pushed raw: their timeStamp is parsed only when merging.
CeloBody(s, r) ==
  IF r.kind # "ok" THEN Failed(s)
  ELSE IF r.n = 0 THEN [s EXCEPT !.status = "exhausted", !.fails = 0]
  ELSE Consumed(s, r.n, r.badAt > 0, r.n = PageSize, CeloLoop(r.n = PageSize, s.page + 1))

\* --------------------------------------------------------------- Tezos (TzKT)
TezosLoop(hm, pg) == hm /\ pg < TezosMaxPages

\* fetchOutgoingTransactions, fetchIncomingTransactions and fetchTokenTransfers
\* share the loop. A body that is no array ends the loop like an empty page.
\* timestamp: item.timestamp || new Date().toISOString()
TezosBody(s, r) ==
  IF r.kind \in {"h429", "h500", "hOther", "neterr", "badbody"} THEN Failed(s)
  ELSE IF r.kind = "apierr" \/ r.n = 0 THEN NoMore(s)
  ELSE Consumed(s, r.n, r.badKind = "unparsable", r.n = PageSize,
                TezosLoop(r.n = PageSize, s.page + 1))

\* ------------------------------------------------- Osmosis (LCD, multi-query)
\* pagination.total as the provider may report it on the first page
\* (0: not reported), in records.
Totals == {0, 2 * PageSize}

\* One pass of "while (hasMore)" on the loop's locals; t is the reported total.
OsmosisBody(s, r, t) ==
  LET ce == s.consecutiveErrors + 1 IN
  IF r.kind \in {"h429", "h500", "hOther"} THEN
       IF r.kind = "h500" \/ ce >= MaxConsecutiveErrors
       THEN [s EXCEPT !.consecutiveErrors = ce, !.fails = @ + 1, !.status = "failed"]
       ELSE [s EXCEPT !.consecutiveErrors = ce, !.fails = @ + 1]
  ELSE IF r.kind = "neterr" THEN
       IF ce >= MaxConsecutiveErrors
       THEN [s EXCEPT !.consecutiveErrors = ce, !.fails = @ + 1, !.hasMore = FALSE,
                      !.status = "failed"]
       ELSE [s EXCEPT !.consecutiveErrors = ce, !.fails = @ + 1]
  ELSE IF r.kind = "badbody" THEN
       \* consecutiveErrors = 0 precedes response.json(), whose exception
       \* then counts 1: the catch never reaches 3 on unparsable bodies.
       IF 1 >= MaxConsecutiveErrors
       THEN [s EXCEPT !.consecutiveErrors = 1, !.fails = 0, !.hasMore = FALSE,
                      !.status = "failed"]
       ELSE [s EXCEPT !.consecutiveErrors = 1, !.fails = 0]
  ELSE IF r.kind = "apierr" \/ r.n = 0 THEN
       [s EXCEPT !.consecutiveErrors = 0, !.hasMore = FALSE, !.fails = 0,
                 !.status = "exhausted"]
  ELSE LET tot == IF s.page = 0 /\ t # 0 THEN t ELSE s.total
           hm == r.n = PageSize /\ ~(tot > 0 /\ s.page * PageSize + r.n >= tot)
       IN [s EXCEPT !.consecutiveErrors = 0, !.total = tot, !.hasMore = hm, !.page = @ + 1, !.pages = @ + 1,
                    !.fails = 0, !.status = IF hm THEN "active" ELSE "exhausted"]

\* ---------------------------------------------------------------- sums
RECURSIVE SumAcc(_, _)
SumAcc(f, n) == IF n = 0 THEN 0 ELSE f[n].acc + SumAcc(f, n - 1)

TotalAcc == IF adapter = "osmosis" THEN osm.size ELSE SumAcc(br, NumBranches(adapter))
AnyBad == IF adapter = "osmosis" THEN osm.bad
          ELSE \E b \in 1..NumBranches(adapter) : br[b].bad
AllEnded == \A b \in 1..NumBranches(adapter) : br[b].status \in Ended

\* -------------------------------------------------------------------- Init
FirstPage(a) == IF a \in {"near", "explorer", "celo"} THEN 1 ELSE 0

InitBranches(a) ==
  [b \in Branches |->
     NewBranch(FirstPage(a),
               IF b = 1 \/ (a = "celo" /\ b = 2) THEN "active" ELSE "idle")]

Init ==
  /\ adapter \in Adapters
  /\ phase = "run"
  /\ ep = 1
  /\ osm = NewOsm
  /\ br = InitBranches(adapter)
  /\ outcome = "pending"
  /\ meta = NoMeta
  /\ resultCount = 0
  /\ delivered = <<>>
  /\ transactions = <<>>
  /\ pace = NoPace
  /\ progress = 0
  /\ cache = NoCache
  /\ tx = NoTx /\ parsed = NoTx /\ rows = <<>> /\ csv = <<>> /\ tick = 0
  /\ resolved = {}
  /\ submit = NoSubmit

\* ------------------------------------------------------------ the page loops
\* An adapter that starts branch b + 1 whenever branch b ended.
SequentialAlways(a) == TRUE

Sequential(a) == a = "tezos"

\* Promise.all([fetchAllRegularTransactions(...), fetchAllTokenTransfers(...)])
RunsAtOnce(a) == a = "celo"

\* Branch b's loop made one pass and is now in state s2. A loop that raised
\* settles fetchAll with the error; a sequential adapter starts its next
\* branch when this one ended.
Settle(b, s2) ==
  LET b1 == [br EXCEPT ![b] = s2]
      b2 == IF s2.status \in Ended /\ s2.status # "threw" /\ Sequential(adapter)
               /\ b < NumBranches(adapter)
            THEN [b1 EXCEPT ![b + 1].status = "active"] ELSE b1
  IN /\ s2.fails <= FailCap
     /\ br' = b2
     /\ IF s2.status = "threw"
        THEN phase' = "done" /\ outcome' = "error"
        ELSE UNCHANGED <<phase, outcome>>
     /\ UNCHANGED <<adapter, tx, parsed, rows, csv, tick, submit, cache, resolved, ep, osm, meta, resultCount, delivered, transactions>>

\* ------------------------------------------- waits and progress reports
\* What a page request brought back.
Answer(r) ==
  IF r.kind # "ok" THEN "fail"
  ELSE IF r.n = 0 THEN "empty"
  ELSE IF r.n = PageSize THEN "full" ELSE "short"

\* The loop pass from s to s2 reached the end of its page handling.
PageConsumed(s, s2) == s2.pages = s.pages + 1

\* if (pagesFetched % 5 === 0) await ... 100
OsmosisDelayEvery == 5

\* Whether adapter a's loop executes a setTimeout wait in the pass that got
\* answer r and went from s to s2: Celenium waits on HTTP 429 and after a
\* page "if (hasMore)", as do GoldRush, Etherscan and TzKT; Pikespeak and the
\* explorer wait after every page; Osmosis waits before a retry and after
\* every fifth page; the single-page LCD fallback never waits.
WaitsAfter(a, r, s, s2) ==
  CASE a = "celestia" -> r.kind = "h429" \/ (PageConsumed(s, s2) /\ s2.hasMore)
    [] a \in {"ronin", "celo", "tezos"} -> PageConsumed(s, s2) /\ s2.hasMore
    [] a \in {"near", "explorer"} -> PageConsumed(s, s2)
    [] a = "osmosis" -> \/ (r.kind \in FailureKinds \ {"apierr"} /\ s2.status = "active")
                        \/ (PageConsumed(s, s2) /\ s2.pages % OsmosisDelayEvery = 0)
    [] OTHER -> FALSE

\* Whether a wait separates branch b's next request from the latest request
\* to the same provider: the loop's own wait when that request was b's, the
\* wait between two branches of an adapter that awaits them in turn, none
\* when another loop issued it (loops run at once, or follow each other
\* directly).
Rested(a, b) ==
  \/ pace.by = 0
  \/ (pace.by = b /\ pace.delayed)
  \/ (pace.by # b /\ Sequential(a))

\* The count passed to the caller's onProgress by the pass from s to s2 of
\* branch b (the previous one when the pass reports nothing): the loop's
\* allTransactions.length; TzKT's reportProgress adds it to totalCount and
\* passes the sum; of the two Etherscan loops only the first is handed the
\* callback; Osmosis reports allTransactions.size (see OsmosisPage).
Reported(a, b, s, s2) ==
  IF ~PageConsumed(s, s2) THEN progress
  ELSE IF a = "tezos" THEN progress + s2.acc
  ELSE IF a = "celo" /\ b # 1 THEN progress
  ELSE s2.acc

\* The ghost and the progress count after branch b's pass with answer r.
Paced(b, r, s2) ==
  /\ pace' = [by |-> b, answer |-> Answer(r),
              delayed |-> WaitsAfter(adapter, r, br[b], s2),
              rested |-> Rested(adapter, b)]
  /\ progress' = Reported(adapter, b, br[b], s2)

CelestiaPage ==
  /\ adapter = "celestia" /\ phase = "run" /\ br[1].status = "active"
  /\ \E r \in Responses : LET s2 == CelestiaBody(br[1], r) IN Settle(1, s2) /\ Paced(1, r, s2)

NearPage ==
  /\ adapter = "near" /\ phase = "run" /\ br[1].status = "active"
  /\ \E r \in Responses : LET s2 == NearBody(br[1], r) IN Settle(1, s2) /\ Paced(1, r, s2)

RoninPage ==
  /\ adapter = "ronin" /\ phase = "run" /\ br[1].status = "active"
  /\ \E r \in Responses : LET s2 == RoninBody(br[1], r) IN Settle(1, s2) /\ Paced(1, r, s2)

ExplorerPage ==
  /\ adapter = "explorer" /\ phase = "run" /\ br[1].status = "active"
  /\ \E r \in Responses : LET s2 == ExplorerBody(br[1], r) IN Settle(1, s2) /\ Paced(1, r, s2)

\* Promise.all: the two loops interleave at their awaits.
CeloPage ==
  /\ adapter = "celo" /\ phase = "run"
  /\ \E b \in 1..2 : /\ br[b].status = "active"
                     /\ \E r \in Responses :
                          LET s2 == CeloBody(br[b], r) IN Settle(b, s2) /\ Paced(b, r, s2)

TezosPage ==
  /\ adapter = "tezos" /\ phase = "run"
  /\ \E b \in 1..3 : /\ br[b].status = "active"
                     /\ \E r \in Responses :
                          LET s2 == TezosBody(br[b], r) IN Settle(b, s2) /\ Paced(b, r, s2)

\* The loop's locals (offset, hasMore, queryTotalReported, consecutiveErrors,
\* pagesFetched) are block-scoped: once the while loop ended only its ghost
\* status remains.
OutOfScope(s) == [NewBranch(0, s.status) EXCEPT !.hasMore = s.hasMore]

\* "for (const queryType of queryTypes)" inside "for (const endpoint of
\* LCD_ENDPOINTS)": one pass of the while loop of query q, then, when that
\* loop ended, the bookkeeping after it, the next query, and after the last
\* query the endpoint's exit test. new is the number of records of the batch
\* whose txhash is not yet in the map (first instance kept): all of them
\* while the map is empty.
OsmosisPage ==
  /\ adapter = "osmosis" /\ phase = "run"
  /\ \E q \in 1..NumQueries :
       /\ br[q].status = "active"
       /\ br[q].pages < OsmosisPageCap
       /\ \E r \in BatchAnswers, t \in Totals, new \in 0..PageSize :
            /\ new \in {0, r.n}
            /\ (osm.size = 0 => new = r.n)
            /\ (t # 0 => r.n > 0 /\ br[q].page = 0)
            /\ LET s2 == OsmosisBody(br[q], r, t)
                   ended == s2.status \in Ended
                   fetched == ended /\ s2.pages > 0
                   b1 == [br EXCEPT ![q] = IF ended THEN OutOfScope(s2) ELSE s2]
                   o1 == [osm EXCEPT
                            !.size = @ + new,
                            !.bad = @ \/ (new > 0 /\ r.badAt > 0),
                            !.endpointSuccess = @ \/ fetched,
                            !.lastSuccessfulEndpoint = IF fetched THEN ep ELSE @,
                            !.queriesWithData = IF fetched /\ s2.total > 0 THEN @ + 1 ELSE @]
                   last == ended /\ q = NumQueries
                   p1 == [by |-> q, answer |-> Answer(r),
                          delayed |-> WaitsAfter("osmosis", r, br[q], s2),
                          rested |-> Rested("osmosis", q)]
               IN /\ s2.fails <= FailCap
                  /\ progress' = IF PageConsumed(br[q], s2) THEN o1.size ELSE progress
                  /\ IF ~ended THEN
                          br' = b1 /\ osm' = o1 /\ pace' = p1 /\ UNCHANGED ep
                     ELSE IF ~last THEN
                          /\ br' = [b1 EXCEPT ![q + 1].status = "active"]
                          /\ osm' = o1 /\ pace' = p1 /\ UNCHANGED ep
                     ELSE IF (o1.endpointSuccess /\ o1.size > 0) \/ ep = NumEndpoints THEN
                          br' = b1 /\ osm' = o1 /\ pace' = p1 /\ UNCHANGED ep
                     ELSE \* the next endpoint is another host: no request to it yet
                          /\ br' = InitBranches("osmosis")
                          /\ ep' = ep + 1
                          /\ osm' = [o1 EXCEPT !.endpointSuccess = FALSE]
                          /\ pace' = [p1 EXCEPT !.by = 0]
       /\ UNCHANGED <<adapter, tx, parsed, rows, csv, tick, submit, cache, resolved, phase, outcome, meta, resultCount, delivered, transactions>>

\* --------------------------------------- Osmosis LCD fallback (single page)
Max(a, b) == IF a > b THEN a ELSE b
Min(a, b) == IF a < b THEN a ELSE b

\* fetchFromEndpoint reading the sender answer: a rejected fetch and HTTP 500
\* raise, as does a body that does not parse; other statuses give no records.
SenderThrows(rs) == rs.kind \in {"neterr", "h500", "badbody"}
\* ... and the recipient answer: only an unparsable body raises.
ReceiverThrows(rr) == rr.kind = "badbody"

LcdBranch(r, read) ==
  IF ~read THEN NewBranch(0, "idle")
  ELSE IF r.kind = "ok"
       THEN [NewBranch(0, "exhausted") EXCEPT !.acc = r.n, !.pages = 1, !.page = 1,
                                              !.hasMore = FALSE, !.bad = r.badAt > 0]
       ELSE [NewBranch(0, "failed") EXCEPT !.fails = 1]

\* One iteration of fetchTransactionsLCD's endpoint loop: fetchFromEndpoint
\* awaits both queries at once (Promise.allSettled), reads the sender answer,
\* then the recipient answer, merges by txhash (u distinct hashes), sorts and
\* slices to the limit; a non-empty list is returned, otherwise the next
\* endpoint is tried, and after the last one an error is raised.
LcdEndpoint ==
  /\ adapter = "lcd" /\ phase = "run"
  /\ \E rs \in Responses, rr \in Responses, u \in 0..(2 * PageSize) :
       LET threw == SenderThrows(rs) \/ ReceiverThrows(rr)
           ns == IF rs.kind = "ok" THEN rs.n ELSE 0
           nr == IF rr.kind = "ok" THEN rr.n ELSE 0
           len == Min(u, PageSize)
       IN /\ IF threw THEN u = 0 ELSE u >= Max(ns, nr) /\ u <= ns + nr
          /\ br' = [b \in Branches |->
                      IF b = 1 THEN LcdBranch(rs, TRUE)
                      ELSE IF b = 2 THEN LcdBranch(rr, ~SenderThrows(rs))
                      ELSE br[b]]
          /\ IF ~threw /\ len > 0 THEN
                  /\ phase' = "done" /\ outcome' = "returned" /\ resultCount' = len
                  /\ UNCHANGED ep
             ELSE IF ep < NumEndpoints THEN
                  /\ ep' = ep + 1
                  /\ UNCHANGED <<phase, outcome, resultCount>>
             ELSE /\ phase' = "done" /\ outcome' = "error"
                  /\ UNCHANGED <<ep, resultCount>>
          \* both requests leave together; the answer read last is the
          \* sender's when it raised, else the recipient's
          /\ pace' = [by |-> IF SenderThrows(rs) THEN 1 ELSE 2,
                      answer |-> IF SenderThrows(rs) THEN Answer(rs) ELSE Answer(rr),
                      delayed |-> WaitsAfter("lcd", rr, br[2], br[2]),
                      rested |-> FALSE]
  /\ UNCHANGED <<adapter, tx, parsed, rows, csv, tick, submit, cache, resolved, osm, meta, delivered, transactions, progress>>

\* ------------------------------------------- the tail of each fetchAll
\* sort, then metadata. firstDate?.toISOString() raises a RangeError when a
\* timestamp of the list does not parse (Math.min(..., NaN) is NaN, and
\* new Date(NaN) is an object, not null).
Return(n, m) ==
  /\ phase' = "done" /\ outcome' = "returned" /\ resultCount' = n /\ meta' = m
  /\ UNCHANGED <<adapter, tx, parsed, rows, csv, tick, submit, cache, resolved, pace, progress, ep, osm, br, delivered, transactions>>

Raise ==
  /\ phase' = "done" /\ outcome' = "error"
  /\ UNCHANGED <<adapter, tx, parsed, rows, csv, tick, submit, cache, resolved, pace, progress, ep, osm, br, meta, resultCount, delivered, transactions>>

CelestiaMeta(n) == [totalFetched |-> n, dataSource |-> "Celenium API (messages endpoint)"]

CelestiaFinish ==
  /\ adapter = "celestia" /\ phase = "run" /\ AllEnded
  /\ IF AnyBad THEN Raise ELSE Return(TotalAcc, CelestiaMeta(TotalAcc))

NearMeta(n, p) == [totalFetched |-> n, totalPages |-> p, dataSource |-> "Pikespeak API"]

NearFinish ==
  /\ adapter = "near" /\ phase = "run" /\ AllEnded
  /\ IF AnyBad THEN Raise ELSE Return(TotalAcc, NearMeta(TotalAcc, br[1].pages))

RoninMeta(n) == [totalFetched |-> n, dataSource |-> "GoldRush REST API"]

RoninFinish ==
  /\ adapter = "ronin" /\ phase = "run" /\ AllEnded
  /\ IF AnyBad THEN Raise ELSE Return(TotalAcc, RoninMeta(TotalAcc))

ExplorerMeta(n, p) == [totalFetched |-> n, totalPages |-> p, dataSource |-> "config.name"]

ExplorerFinish ==
  /\ adapter = "explorer" /\ phase = "run" /\ AllEnded
  /\ IF AnyBad THEN Raise ELSE Return(TotalAcc, ExplorerMeta(TotalAcc, br[1].pages))

OsmosisMeta(n, e, q) ==
  [totalFetched |-> n, dataSource |-> <<"LCD API", e>>, queryTypesUsed |-> q,
   endpoints |-> <<e>>]

OsmosisFinish ==
  /\ adapter = "osmosis" /\ phase = "run" /\ AllEnded
  /\ IF AnyBad THEN Raise
     ELSE Return(TotalAcc, OsmosisMeta(TotalAcc, osm.lastSuccessfulEndpoint,
                                       osm.queriesWithData))

CeloMeta(n, reg, tok) ==
  [totalFetched |-> n, regularTxCount |-> reg, tokenTransferCount |-> tok,
   dataSource |-> "Etherscan v2 API"]

\* mergeTransactionsAndTransfers: every regular transaction is converted
\* (its timeStamp parsed), and the token transfers without a regular
\* transaction are grouped by hash into orph further entries, each parsing
\* the timeStamp of its first transfer. An unparsable one raises.
CeloFinish ==
  /\ adapter = "celo" /\ phase = "run" /\ AllEnded
  /\ \E orph \in 0..br[2].acc, orphBad \in BOOLEAN :
       /\ (br[1].acc = 0 /\ br[2].acc > 0) => orph >= 1
       /\ orphBad => (br[2].bad /\ orph >= 1)
       /\ IF br[1].bad \/ orphBad THEN Raise
          ELSE Return(br[1].acc + orph, CeloMeta(br[1].acc + orph, br[1].acc, br[2].acc))

TezosMeta(n, out, inc, tok) ==
  [totalFetched |-> n, outgoingCount |-> out, incomingCount |-> inc,
   tokenTransferCount |-> tok, dataSource |-> "TzKT API"]

\* The sort and the dates are guarded against unparsable timestamps.
TezosFinish ==
  /\ adapter = "tezos" /\ phase = "run" /\ AllEnded
  /\ Return(TotalAcc, TezosMeta(TotalAcc, br[1].acc, br[2].acc, br[3].acc))

\* ===================================================== aggregation (SpecAgg)
\* What fetchAll does with the records once the pages are in: conversion of
\* the timestamps, merge, sort, metadata. delivered lists the records of the
\* answered pages in the order the adapter processes them (branch by branch).
Timestamps == [kind : {"ok"}, t : 1..MaxTs] \cup [kind : {"missing", "unparsable"}, t : {0}]

\* new Date().toISOString() at fetch time: later than any on-chain timestamp.
Now == [kind |-> "ok", t |-> MaxTs + 1]

ProviderRecords(a) == [hash : 1..NumHashes, ts : Timestamps, branch : 1..NumBranches(a)]

\* The fallback asks each of its two queries for at most limit records.
Deliveries(a) ==
  UNION { { d \in [1..n -> ProviderRecords(a)] :
              /\ \A i \in 1..(n - 1) : d[i].branch <= d[i + 1].branch
              /\ a = "lcd" =>
                   \A b \in 1..2 : Cardinality({i \in 1..n : d[i].branch = b}) <= PageSize }
          : n \in 0..MaxDelivered }

\* new Date(x).getTime() is NaN for a missing or unparsable x.
IsNaN(ts) == ts.kind # "ok"
HasNaN(list) == \E k \in 1..Len(list) : IsNaN(list[k].ts)

\* item.time || new Date().toISOString()
OrNow(ts) == IF ts.kind = "missing" THEN Now ELSE ts

\* An entry of the returned list: from is the index in delivered of the
\* provider record it was built from.
Entry(i, ts) == [hash |-> delivered[i].hash, ts |-> ts, from |-> i]

RECURSIVE SelectIdx(_, _)
\* The indices of 1..n in S, in increasing order.
SelectIdx(n, S) ==
  IF n = 0 THEN <<>>
  ELSE IF n \in S THEN Append(SelectIdx(n - 1, S), n) ELSE SelectIdx(n - 1, S)

\* Array.prototype.sort with (a, b) => time(b) - time(a): stable, newest first.
InsertDesc(x, r) ==
  LET k == Cardinality({j \in 1..Len(r) : r[j].ts.t >= x.ts.t})
  IN SubSeq(r, 1, k) \o <<x>> \o SubSeq(r, k + 1, Len(r))

RECURSIVE StableSort(_)
StableSort(list) ==
  IF list = <<>> THEN <<>>
  ELSE InsertDesc(list[Len(list)], StableSort(SubSeq(list, 1, Len(list) - 1)))

Perms(list) ==
  { [k \in 1..Len(list) |-> list[f[k]]] :
      f \in { g \in [1..Len(list) -> 1..Len(list)] :
                \A x, y \in 1..Len(list) : g[x] = g[y] => x = y } }

\* With a NaN among the times the comparator is not a consistent ordering and
\* the order sort leaves is implementation-defined.
SortNewestFirst(list) == IF HasNaN(list) THEN Perms(list) ELSE {StableSort(list)}

Throw ==
  /\ phase' = "done" /\ outcome' = "error"
  /\ UNCHANGED <<adapter, tx, parsed, rows, csv, tick, submit, cache, resolved, pace, progress, ep, osm, br, meta, resultCount, delivered, transactions>>

\* sort, then the metadata; unguarded metadata raise on a NaN time.
SortAndReturn(list, guarded) ==
  IF ~guarded /\ HasNaN(list) THEN Throw
  ELSE /\ \E out \in SortNewestFirst(list) : transactions' = out
       /\ phase' = "done" /\ outcome' = "returned" /\ resultCount' = Len(list)
       /\ UNCHANGED <<adapter, tx, parsed, rows, csv, tick, submit, cache, resolved, pace, progress, ep, osm, br, meta, delivered>>

\* Every converted record, a missing time replaced by the fetch time.
AllOrNow == [i \in 1..Len(delivered) |-> Entry(i, OrNow(delivered[i].ts))]

\* Celestia, Ronin: every record kept, a missing time replaced by the fetch time.
CelestiaAggregate ==
  /\ adapter = "celestia" /\ phase = "agg"
  /\ SortAndReturn(AllOrNow, FALSE)

RoninAggregate ==
  /\ adapter = "ronin" /\ phase = "agg"
  /\ SortAndReturn(AllOrNow, FALSE)

\* NEAR, explorer: the conversion inside the loop's try raises on the first
\* record whose time is no number; the loop rethrows with nothing
\* accumulated and otherwise breaks, keeping the records before it.
Prefix ==
  LET bad == {i \in 1..Len(delivered) : IsNaN(delivered[i].ts)}
      n == IF bad = {} THEN Len(delivered)
           ELSE (CHOOSE i \in bad : \A j \in bad : i <= j) - 1
  IN [i \in 1..n |-> Entry(i, delivered[i].ts)]

AbortOnBadTime ==
  IF Prefix = <<>> /\ delivered # <<>> THEN Throw ELSE SortAndReturn(Prefix, FALSE)

NearAggregate == adapter = "near" /\ phase = "agg" /\ AbortOnBadTime

ExplorerAggregate == adapter = "explorer" /\ phase = "agg" /\ AbortOnBadTime

\* Celo: records are raw; mergeTransactionsAndTransfers converts every regular
\* transaction (branch 1), then one entry per hash of the token transfers
\* (branch 2) that match no regular transaction, built from the first
\* transfer of that hash. new Date(NaN).toISOString() raises in either.
CeloAggregate ==
  /\ adapter = "celo" /\ phase = "agg"
  /\ LET n == Len(delivered)
         regular == {i \in 1..n : delivered[i].branch = 1}
         orphaned == {i \in 1..n : /\ delivered[i].branch = 2
                                   /\ \A j \in regular : delivered[j].hash # delivered[i].hash}
         representative == {i \in orphaned :
                              \A j \in orphaned : delivered[j].hash = delivered[i].hash => i <= j}
         idx == SelectIdx(n, regular) \o SelectIdx(n, representative)
         merged == [k \in 1..Len(idx) |-> Entry(idx[k], delivered[idx[k]].ts)]
     IN IF HasNaN(merged) THEN Throw ELSE SortAndReturn(merged, FALSE)

\* Tezos: the three branch lists concatenated and filtered on a truthy
\* timestamp and hash (every converted record has both); the comparator and
\* the dates are guarded against NaN.
TezosAggregate ==
  /\ adapter = "tezos" /\ phase = "agg"
  /\ SortAndReturn(AllOrNow, TRUE)

\* Osmosis multi-query: the Map keeps the first record seen of each txhash;
\* timestamps are passed through as delivered.
OsmosisAggregate ==
  /\ adapter = "osmosis" /\ phase = "agg"
  /\ LET n == Len(delivered)
         first == {i \in 1..n : \A j \in 1..n : delivered[j].hash = delivered[i].hash => i <= j}
         idx == SelectIdx(n, first)
     IN SortAndReturn([k \in 1..Len(idx) |-> Entry(idx[k], delivered[idx[k]].ts)], FALSE)

\* Osmosis LCD fallback: new Map(allTxs.map(tx => [tx.txhash, tx])) keeps each
\* hash at the position of its first record with the value of its last one;
\* then sort and slice(0, limit). No metadata is built.
LcdAggregate ==
  /\ adapter = "lcd" /\ phase = "agg"
  /\ LET n == Len(delivered)
         first == {i \in 1..n : \A j \in 1..n : delivered[j].hash = delivered[i].hash => i <= j}
         idx == SelectIdx(n, first)
         lastOf(i) == CHOOSE j \in 1..n :
                        /\ delivered[j].hash = delivered[i].hash
                        /\ \A l \in 1..n : delivered[l].hash = delivered[i].hash => l <= j
         unique == [k \in 1..Len(idx) |-> Entry(lastOf(idx[k]), delivered[lastOf(idx[k])].ts)]
     IN /\ \E out \in SortNewestFirst(unique) :
             transactions' = SubSeq(out, 1, Min(Len(out), PageSize))
        /\ phase' = "done" /\ outcome' = "returned"
        /\ resultCount' = Min(Len(unique), PageSize)
        /\ UNCHANGED <<adapter, tx, parsed, rows, csv, tick, submit, cache, resolved, pace, progress, ep, osm, br, meta, delivered>>

InitAgg ==
  /\ adapter \in Adapters
  /\ phase = "agg"
  /\ ep = 1
  /\ osm = NewOsm
  /\ br = InitBranches(adapter)
  /\ outcome = "pending"
  /\ meta = NoMeta
  /\ resultCount = 0
  /\ delivered \in Deliveries(adapter)
  /\ transactions = <<>>
  /\ pace = NoPace
  /\ progress = 0
  /\ cache = NoCache
  /\ tx = NoTx /\ parsed = NoTx /\ rows = <<>> /\ csv = <<>> /\ tick = 0
  /\ resolved = {}
  /\ submit = NoSubmit

NextAgg ==
  \/ CelestiaAggregate \/ NearAggregate \/ RoninAggregate \/ ExplorerAggregate
  \/ CeloAggregate \/ TezosAggregate \/ OsmosisAggregate \/ LcdAggregate

SpecAgg == InitAgg /\ [][NextAgg]_vars

Next ==
  \/ CelestiaPage \/ NearPage \/ RoninPage \/ ExplorerPage \/ CeloPage \/ TezosPage
  \/ OsmosisPage \/ LcdEndpoint
  \/ CelestiaFinish \/ NearFinish \/ RoninFinish \/ ExplorerFinish \/ OsmosisFinish
  \/ CeloFinish \/ TezosFinish

Spec == Init /\ [][Next]_vars

\* ============================================== record conversion (SpecRec)
\* What each adapter does with the records of its pages one by one. A
\* provider record is "ok", lacks its identity field ("nohash": tx.hash,
\* tx_hash, receipt_id, txhash, id), or is "malformed": it has an identity
\* but lacks a field its conversion dereferences or parses (tx.to,
\* receipt_outcome, gasUsed). Timestamps all parse here. delivered lists the
\* shapes in page order; transactions lists the records kept.
Shapes == {"ok", "nohash", "malformed"}

ShapeLists == UNION { [1..n -> Shapes] : n \in 0..MaxDelivered }

Kept(i) == [from |-> i, identified |-> delivered[i] # "nohash"]

KeepAll(S) ==
  LET idx == SelectIdx(Len(delivered), S) IN [k \in 1..Len(idx) |-> Kept(idx[k])]

ReturnKept(S) ==
  /\ transactions' = KeepAll(S)
  /\ phase' = "done" /\ outcome' = "returned" /\ resultCount' = Cardinality(S)
  /\ UNCHANGED <<adapter, tx, parsed, rows, csv, tick, submit, cache, resolved, pace, progress, ep, osm, br, meta, delivered>>

\* The converters of Celestia, Ronin and Tezos return null for a record
\* without identity and, from their catch, for one whose conversion raised;
\* the page loop skips null.
GuardedConvert ==
  ReturnKept({i \in 1..Len(delivered) : delivered[i] = "ok"})

CelestiaConvert == adapter = "celestia" /\ phase = "rec" /\ GuardedConvert
RoninConvert == adapter = "ronin" /\ phase = "rec" /\ GuardedConvert
TezosConvert == adapter = "tezos" /\ phase = "rec" /\ GuardedConvert

\* NEAR and the explorer client never test the identity (the entry gets an
\* undefined hash) and convert inside the page loop's try: a conversion
\* that raises lands in the loop's catch, which rethrows when nothing is
\* accumulated and otherwise breaks, dropping the rest of the fetch.
UnguardedConvert ==
  LET n == Len(delivered)
      broken == {i \in 1..n : delivered[i] = "malformed"}
      stop == IF broken = {} THEN n + 1 ELSE CHOOSE i \in broken : \A j \in broken : i <= j
  IN IF stop = 1 THEN Throw ELSE ReturnKept(1..(stop - 1))

NearConvert == adapter = "near" /\ phase = "rec" /\ UnguardedConvert
ExplorerConvert == adapter = "explorer" /\ phase = "rec" /\ UnguardedConvert

\* Celo pushes raw records and converts them after the loops, outside any
\* try: a conversion that raises rejects fetchAll; identity is not tested.
CeloConvert ==
  /\ adapter = "celo" /\ phase = "rec"
  /\ IF \E i \in 1..Len(delivered) : delivered[i] = "malformed" THEN Throw
     ELSE ReturnKept(1..Len(delivered))

\* Osmosis multi-query stores raw records under a truthy txhash only.
OsmosisConvert ==
  /\ adapter = "osmosis" /\ phase = "rec"
  /\ ReturnKept({i \in 1..Len(delivered) : delivered[i] # "nohash"})

\* The fallback keys its Map by tx.txhash whatever it is: records without
\* txhash collapse into one entry under the key undefined (the last one).
LcdConvert ==
  /\ adapter = "lcd" /\ phase = "rec"
  /\ LET n == Len(delivered)
         anon == {i \in 1..n : delivered[i] = "nohash"}
     IN ReturnKept({i \in 1..n : i \in anon => \A j \in anon : j <= i})

InitRec ==
  /\ adapter \in Adapters
  /\ phase = "rec"
  /\ ep = 1
  /\ osm = NewOsm
  /\ br = InitBranches(adapter)
  /\ outcome = "pending"
  /\ meta = NoMeta
  /\ resultCount = 0
  /\ delivered \in ShapeLists
  /\ transactions = <<>>
  /\ pace = NoPace
  /\ progress = 0
  /\ cache = NoCache
  /\ tx = NoTx /\ parsed = NoTx /\ rows = <<>> /\ csv = <<>> /\ tick = 0
  /\ resolved = {}
  /\ submit = NoSubmit

NextRec ==
  \/ CelestiaConvert \/ RoninConvert \/ TezosConvert \/ NearConvert \/ ExplorerConvert
  \/ CeloConvert \/ OsmosisConvert \/ LcdConvert

SpecRec == InitRec /\ [][NextRec]_vars

\* ========================================================= form submission
\* The address as typed into the form: well formed, well formed with blanks
\* around it, malformed, empty.
Addresses == {"addr", " addr ", "xyz", ""}

\* address.trim()
Trim(a) == IF a = " addr " THEN "addr" ELSE a

\* handler.isValid / isValid<Chain>Address: a pattern test on the string
IsValid(a) == a = "addr"

\* The chains each form offers.
Handlers == {"page", "wallet"}
Offered(h) ==
  IF h = "page" THEN {"celo", "ronin", "celestia", "tezos"}
  ELSE {"osmosis", "celo", "explorer", "near", "ronin", "celestia"}

\* The string each handler validates and passes on: app/page.tsx trims it,
\* the wallet form hands it over as received.
Given(h, a) == IF h = "page" THEN Trim(a) ELSE a

\* A handler that fetches whatever it is given.
PassedUnchecked(h, a) == TRUE

\* if (!handler.isValid(address.trim())) throw new Error(...)
Passed(h, a) == IsValid(Given(h, a))

\* handleSubmit / handleWalletSubmit up to the call of fetchAll: an address
\* that fails the test raises, the catch block shows the message, nothing
\* is fetched.
Submitted(h) ==
  /\ IF Passed(h, submit.typed)
     THEN /\ phase' = "run"
          /\ submit' = [submit EXCEPT !.sent = Given(h, submit.typed)]
          /\ UNCHANGED outcome
     ELSE /\ phase' = "done" /\ outcome' = "error"
          /\ submit' = [submit EXCEPT !.error = "validation"]
  /\ UNCHANGED <<adapter, tx, parsed, rows, csv, tick, ep, osm, br, meta, resultCount, delivered, transactions,
                 pace, progress, cache, resolved>>

HandleSubmit ==
  /\ phase = "submit" /\ submit.handler = "page"
  /\ Submitted("page")

HandleWalletSubmit ==
  /\ phase = "submit" /\ submit.handler = "wallet"
  /\ Submitted("wallet")

InitSubmit ==
  /\ submit \in [handler : Handlers, typed : Addresses, sent : {"(none)"}, error : {"none"}]
  /\ adapter \in Offered(submit.handler)
  /\ phase = "submit"
  /\ ep = 1
  /\ osm = NewOsm
  /\ br = InitBranches(adapter)
  /\ outcome = "pending"
  /\ meta = NoMeta
  /\ resultCount = 0
  /\ delivered = <<>>
  /\ transactions = <<>>
  /\ pace = NoPace
  /\ progress = 0
  /\ cache = NoCache
  /\ tx = NoTx /\ parsed = NoTx /\ rows = <<>> /\ csv = <<>> /\ tick = 0
  /\ resolved = {}

NextSubmit ==
  \/ HandleSubmit \/ HandleWalletSubmit
  \/ CelestiaPage \/ NearPage \/ RoninPage \/ ExplorerPage \/ OsmosisPage \/ CeloPage
  \/ TezosPage
  \/ CelestiaFinish \/ NearFinish \/ RoninFinish \/ ExplorerFinish \/ OsmosisFinish
  \/ CeloFinish \/ TezosFinish

SpecSubmit == InitSubmit /\ [][NextSubmit]_vars

\* ===================================================== token symbol lookups
\* The lookups of one session, in any order, against the module-level
\* tokenMetadataCache of the Ronin, Celo and Tezos adapters. A lookup is
\* (spelling of the contract address, symbol and decimals as the record
\* carries them); "" stands for an absent field.
MaxLookups == 3

ApiSymbols == {"", "null", "undefined", "A", "B"}
ApiDecimals == {"", "6"}

\* parseInt(apiDecimals): 0 stands for NaN
ParseInt(d) == IF d = "6" THEN 6 ELSE 0

\* address.slice(0, 10): the stand-ins are shorter than ten characters
ShortAddr(address) == address

\* The keys of the adapter's hardcoded token map, as written in the source:
\* RONIN_TOKEN_MAP is empty, the other two are keyed by mixed-case addresses.
TokenMapKeys(a) == IF a = "ronin" THEN {} ELSE {"0xAA"}
TokenMapEntry(a) ==
  IF a = "celo" THEN [symbol |-> "cUSD", decimals |-> 18]
  ELSE [symbol |-> "tzBTC", decimals |-> 8]

\* A cache that forgets its entries.
CachedNever(address) == FALSE

\* tokenMetadataCache.has(address)
Cached(address) == cache[address] # NoEntry

\* tokenMetadataCache.set(address, metadata)
CacheSet(address, metadata) == cache' = [cache EXCEPT ![address] = metadata]

\* The lookup of contract c carrying symbol api resolved to sym.
Remember(c, api, sym) ==
  /\ resolved' = resolved \cup {[contract |-> c, api |-> api, symbol |-> sym]}
  /\ Cardinality(resolved') <= MaxLookups

\* tickerSymbol && tickerSymbol.length > 0 && !== "null" && !== "undefined"
ValidTicker(api) == api \notin {"", "null", "undefined"}

Rest == UNCHANGED <<adapter, tx, parsed, rows, csv, tick, submit, phase, ep, osm, br, outcome, meta, resultCount, delivered,
                    transactions, pace, progress>>

\* Ronin getTokenSymbol: a usable ticker is cached; the map symbol and the
\* shortened address are returned without being cached.
RoninGetTokenSymbol ==
  /\ adapter = "ronin" /\ phase = "tok"
  /\ \E c \in Spellings, api \in ApiSymbols :
       LET address == Lower(c) IN
       IF Cached(address) THEN
            Remember(c, api, cache[address].symbol) /\ UNCHANGED cache
       ELSE IF ValidTicker(api) THEN
            CacheSet(address, [symbol |-> api, decimals |-> 18]) /\ Remember(c, api, api)
       ELSE IF address \in TokenMapKeys("ronin") THEN
            Remember(c, api, "mapped") /\ UNCHANGED cache
       ELSE Remember(c, api, ShortAddr(address)) /\ UNCHANGED cache
  /\ Rest

\* Celo getTokenSymbol: cache, then CELO_TOKEN_MAP[address] (address is
\* lowercased, the keys are not), then the record's symbol, then the
\* shortened address; whatever is returned is cached.
CeloGetTokenSymbol ==
  /\ adapter = "celo" /\ phase = "tok"
  /\ \E c \in Spellings, api \in ApiSymbols :
       LET address == Lower(c)
           sym == IF address \in TokenMapKeys("celo") THEN TokenMapEntry("celo").symbol
                  ELSE IF ValidTicker(api) THEN api ELSE ShortAddr(address)
       IN IF Cached(address) THEN
               Remember(c, api, cache[address].symbol) /\ UNCHANGED cache
          ELSE CacheSet(address, [symbol |-> sym, decimals |-> 18]) /\ Remember(c, api, sym)
  /\ Rest

\* Celo getTokenMetadata: as above, but only "" and "null" count as no
\* symbol, and decimals is parseInt(apiDecimals) || 18.
CeloGetTokenMetadata ==
  /\ adapter = "celo" /\ phase = "tok"
  /\ \E c \in Spellings, api \in ApiSymbols, d \in ApiDecimals :
       LET address == Lower(c)
           dec == IF ParseInt(d) # 0 THEN ParseInt(d) ELSE 18
           sym == IF address \in TokenMapKeys("celo") THEN TokenMapEntry("celo").symbol
                  ELSE IF api \notin {"", "null"} THEN api ELSE ShortAddr(address)
       IN IF Cached(address) THEN
               Remember(c, api, cache[address].symbol) /\ UNCHANGED cache
          ELSE CacheSet(address, [symbol |-> sym, decimals |-> dec]) /\ Remember(c, api, sym)
  /\ Rest

\* Tezos getTokenMetadata: cache by lowercased address, then
\* TEZOS_TOKEN_MAP[contractAddress] by the address as spelled, then the
\* record's symbol if not empty, else the shortened address;
\* decimals is apiDecimals ? parseInt(apiDecimals) : 0.
TezosGetTokenMetadata ==
  /\ adapter = "tezos" /\ phase = "tok"
  /\ \E c \in Spellings, api \in ApiSymbols, d \in ApiDecimals :
       LET address == Lower(c)
           metadata == IF c \in TokenMapKeys("tezos") THEN TokenMapEntry("tezos")
                       ELSE [symbol |-> IF api # "" THEN api ELSE ShortAddr(address),
                             decimals |-> IF d # "" THEN ParseInt(d) ELSE 0]
       IN IF Cached(address) THEN
               Remember(c, api, cache[address].symbol) /\ UNCHANGED cache
          ELSE CacheSet(address, metadata) /\ Remember(c, api, metadata.symbol)
  /\ Rest

InitTok ==
  /\ adapter \in {"ronin", "celo", "tezos"}
  /\ phase = "tok"
  /\ ep = 1
  /\ osm = NewOsm
  /\ br = InitBranches(adapter)
  /\ outcome = "pending"
  /\ meta = NoMeta
  /\ resultCount = 0
  /\ delivered = <<>>
  /\ transactions = <<>>
  /\ pace = NoPace
  /\ progress = 0
  /\ cache = NoCache
  /\ tx = NoTx /\ parsed = NoTx /\ rows = <<>> /\ csv = <<>> /\ tick = 0
  /\ resolved = {}
  /\ submit = NoSubmit

NextTok ==
  \/ RoninGetTokenSymbol \/ CeloGetTokenSymbol \/ CeloGetTokenMetadata
  \/ TezosGetTokenMetadata

SpecTok == InitTok /\ [][NextTok]_vars

\* ======================================================= the classifiers
\* parseTransaction of each chain, applied to one canonical transaction.
\* Addresses are the stand-ins "w" (the wallet as providers spell it), "W"
\* (the same address typed in upper case), "x" (another address) and ""
\* (field absent).
MaxTransfers == 2

Wallets == {"w", "W"}
Addr == {"", "w", "x"}

\* String.prototype.toLowerCase on the stand-ins
LowerAddr(a) == IF a = "W" THEN "w" ELSE a

\* TransactionType, the closed enumeration
Types ==
  {"send", "receive", "swap", "ibc_transfer", "delegate", "undelegate", "claim_rewards",
   "pool_deposit", "pool_withdraw", "governance_vote", "unknown"}

\* The last segment of messages[0]["@type"]; "none": the message list is
\* empty. "stake" and "swap" are NEAR method names ("/near.ACTION.stake").
CosmosKinds ==
  {"MsgSend", "MsgDelegate", "MsgUndelegate", "MsgWithdrawDelegatorReward", "MsgVote",
   "MsgJoinPool", "MsgExitPool", "MsgSwapExactAmountIn", "MsgTransfer"}
NearKinds == {"MsgSend", "stake", "swap"}

\* msgType.includes(pattern), for the patterns the classifiers test
Includes(kind, pattern) ==
  \/ kind = pattern
  \/ kind = "MsgSend" /\ pattern = "Send"
  \/ kind = "MsgJoinPool" /\ pattern = "JoinPool"
  \/ kind = "MsgExitPool" /\ pattern = "ExitPool"
  \/ kind = "MsgSwapExactAmountIn" /\ pattern \in {"MsgSwap", "SwapExactAmountIn"}

\* message.amount[0].amount as the provider gave it: absent, zero, a
\* number, not a number.
RawAmounts == {"", "0", "5", "abc"}

\* parseFloat(raw) / 10^k then toFixed: "NaN" for a string that is no number
Scaled(raw) == IF raw = "abc" THEN "NaN" ELSE IF raw = "5" THEN "0.000005" ELSE "0.000000"

\* The token_transfer events of the logs, in order.
TokenTransfers == [from : {"w", "x"}, to : {"w", "x"}, symbol : {"A", "B"}]
TransferLists == UNION {[1..n -> TokenTransfers] : n \in 0..MaxTransfers}

Invocations == {"", "fromAddress", "toAddress", "delegator"}

Tx(c, w, k, f, t, i, a, tr, m) ==
  [chain |-> c, wallet |-> w, kind |-> k, from |-> f, to |-> t, inv |-> i, amount |-> a,
   transfers |-> tr, memo |-> m, hash |-> "0xHASH"]

\* The transactions each parser is tried on.
Inputs ==
  {Tx("osmosis", w, k, f, t, "", a, <<>>, m) :
      w \in Wallets, k \in CosmosKinds \cup {"none"}, f \in Addr, t \in Addr,
      a \in RawAmounts, m \in {"", "memo"}}
  \cup {Tx("celestia", w, k, f, t, i, a, <<>>, "") :
      w \in Wallets, k \in CosmosKinds \cup {"none"}, f \in Addr, t \in Addr,
      i \in Invocations, a \in RawAmounts}
  \cup {Tx("near", w, k, f, t, "", a, <<>>, m) :
      w \in Wallets, k \in NearKinds \cup {"none"}, f \in Addr, t \in Addr,
      a \in RawAmounts, m \in {"", "memo"}}
  \cup {Tx(c, w, k, f, t, "", a, tr, "") :
      c \in {"tezos", "celo", "ronin"}, w \in Wallets, k \in {"MsgSend", "none"},
      f \in Addr, t \in Addr, a \in RawAmounts, tr \in TransferLists}

\* A ParsedTransaction. notes lists the pieces of the memo field, which
\* becomes the CSV Notes column.
Parsed(t, ty, f, to, a, c, a2, c2, n) ==
  [chain |-> t.chain, threw |-> FALSE, hash |-> t.hash, type |-> ty, from |-> f, to |-> to,
   amount |-> a, currency |-> c, amount2 |-> a2, currency2 |-> c2, notes |-> n]

\* The parser raised instead of returning.
Thrown(t) ==
  [chain |-> t.chain, threw |-> TRUE, hash |-> t.hash, type |-> "", from |-> "", to |-> "",
   amount |-> "", currency |-> "", amount2 |-> "", currency2 |-> "", notes |-> <<>>]

\* if (isIncoming && !isOutgoing) receive; else if (isOutgoing && !isIncoming)
\* send; else if (isOutgoing && isIncoming) send; else receive
Direction(t) ==
  LET isOutgoing == LowerAddr(t.from) = LowerAddr(t.wallet)
      isIncoming == LowerAddr(t.to) = LowerAddr(t.wallet)
  IN IF isIncoming /\ ~isOutgoing THEN "receive"
     ELSE IF isOutgoing THEN "send" ELSE "receive"

\* tx.tx?.body?.memo || "" as the only text of the memo field
MemoOnly(t) == IF t.memo = "" THEN <<>> ELSE <<t.memo>>

\* --------------------------------------------------------------- Osmosis
\* formatAmount: parseInt, "0" for NaN, else (num / 1_000_000).toFixed(6)
OsmosisFormatAmount(raw) == IF raw = "abc" THEN "0" ELSE Scaled(raw)

OsmosisParseTransaction(t) ==
  LET k == t.kind
      coin == IF t.amount = "" THEN <<"", "">> ELSE <<OsmosisFormatAmount(t.amount), "OSMO">>
      sender == IF t.from = "" THEN t.wallet ELSE t.from
      P(ty, f, to, am) == Parsed(t, ty, f, to, am[1], am[2], "", "", MemoOnly(t))
  IN IF k = "none" THEN P("unknown", "", "", <<"", "">>)
     ELSE IF Includes(k, "MsgSend")
          THEN P(IF t.from = t.wallet THEN "send" ELSE "receive", t.from, t.to, coin)
     ELSE IF Includes(k, "MsgSwap") \/ Includes(k, "SwapExactAmountIn")
             \/ Includes(k, "SwapExactAmountOut")
          THEN P("swap", sender, "", <<"", "">>)
     ELSE IF Includes(k, "MsgTransfer") THEN P("ibc_transfer", t.from, t.to, coin)
     ELSE IF Includes(k, "MsgDelegate") THEN P("delegate", sender, t.to, coin)
     ELSE IF Includes(k, "MsgUndelegate") \/ Includes(k, "MsgBeginUnbonding")
          THEN P("undelegate", sender, "", <<"", "">>)
     ELSE IF Includes(k, "MsgWithdrawDelegatorReward")
          THEN P("claim_rewards", sender, "", <<"", "">>)
     ELSE IF Includes(k, "MsgVote") THEN P("governance_vote", sender, "", <<"", "">>)
     ELSE IF Includes(k, "JoinPool") \/ Includes(k, "JoinSwapExternAmountIn")
          THEN P("pool_deposit", sender, "", <<"", "">>)
     ELSE IF Includes(k, "ExitPool") \/ Includes(k, "ExitSwapShareAmountIn")
          THEN P("pool_withdraw", sender, "", <<"", "">>)
     ELSE P("unknown", "", "", <<"", "">>)

\* -------------------------------------------------------------- Celestia
\* invocation_type first, the address comparison as fallback, then the
\* message type; BigInt(coin.amount) raises on a string that is no integer.
CelestiaParseTransaction(t) ==
  LET byInvocation ==
        IF t.inv = "fromAddress" THEN "send"
        ELSE IF t.inv = "toAddress" THEN "receive"
        ELSE IF t.inv = "delegator" THEN "delegate"
        ELSE Direction(t)
      ty == IF t.kind = "none" THEN "unknown"
            ELSE IF Includes(t.kind, "MsgDelegate") THEN "delegate"
            ELSE IF Includes(t.kind, "MsgUndelegate") THEN "undelegate"
            ELSE IF Includes(t.kind, "MsgWithdrawDelegatorReward") THEN "claim_rewards"
            ELSE byInvocation
      f == IF t.kind = "none" THEN "" ELSE t.from
      to == IF t.kind = "none" THEN "" ELSE t.to
      converts == t.kind # "none" /\ t.amount \notin {"", "0"}
  IN IF converts /\ t.amount = "abc" THEN Thrown(t)
     ELSE Parsed(t, ty, f, to, IF converts THEN Scaled(t.amount) ELSE "0", "TIA", "", "",
                 <<ty, "[TX:", t.hash, "]">>)

\* ------------------------------------------------------------------ NEAR
\* formatNearAmount: BigInt in a try, the string itself when it raises
NearParseTransaction(t) ==
  LET plain == t.kind = "MsgSend"
      \* the converter sets sender and receiver on method calls only
      sender == IF plain THEN "" ELSE t.from
      am == IF t.amount = "" THEN ""
            ELSE IF t.amount = "abc" THEN "abc" ELSE Scaled(t.amount)
      P(ty, f, to) == Parsed(t, ty, f, to, am, "NEAR", "", "", MemoOnly(t))
  IN IF t.kind = "none" THEN Parsed(t, "unknown", "", "", "", "NEAR", "", "", MemoOnly(t))
     ELSE IF Includes(t.kind, "Receive") \/ t.from = t.wallet
          THEN P("receive", t.from, IF t.to = "" THEN t.wallet ELSE t.to)
     ELSE IF Includes(t.kind, "Send") \/ sender = t.wallet
          THEN P("send", IF sender = "" THEN t.wallet ELSE sender, IF plain THEN "" ELSE t.to)
     ELSE IF Includes(t.kind, "swap")
          THEN P("swap", IF sender = "" THEN t.wallet ELSE sender, t.to)
     ELSE P("unknown", "", "")

\* ----------------------------------------------- Tezos, Celo, Ronin (logs)
\* The running fields of the loop over the token_transfer events.
Fields(ty, f, to, a, c, a2, c2, n) ==
  [type |-> ty, from |-> f, to |-> to, amount |-> a, currency |-> c, amount2 |-> a2,
   currency2 |-> c2, seen |-> n]

NativeAmount(t) == IF t.amount \in {"", "0"} THEN "" ELSE Scaled(t.amount)

\* Tezos: the first transfer becomes the primary amount and sets the type
\* when there is no native amount, the next one fills amount2.
TezosTransfer(t, s, e) ==
  IF s.amount \in {"", "0"}
  THEN [s EXCEPT !.amount = "1.000000", !.currency = e.symbol, !.from = e.from, !.to = e.to,
                 !.type = IF LowerAddr(e.from) = LowerAddr(t.wallet) THEN "send" ELSE "receive",
                 !.seen = @ + 1]
  ELSE IF s.amount2 = ""
  THEN [s EXCEPT !.amount2 = "1.000000", !.currency2 = e.symbol, !.seen = @ + 1]
  ELSE [s EXCEPT !.seen = @ + 1]

\* Celo: tokenTransfers.length decides; the swap test runs only when the
\* second transfer finds amount2 still empty.
CeloTransfer(t, s, e) ==
  LET w == LowerAddr(t.wallet)
      out == LowerAddr(e.from) = w
      in == LowerAddr(e.to) = w
      first == t.transfers[1]
  IN IF s.seen = 0 THEN
          IF s.amount \in {"", "0"}
          THEN [s EXCEPT !.amount = "1.000000", !.currency = e.symbol, !.from = e.from,
                         !.to = e.to, !.seen = 1,
                         !.type = IF out THEN "send" ELSE IF in THEN "receive" ELSE "unknown"]
          ELSE [s EXCEPT !.amount2 = "1.000000", !.currency2 = e.symbol, !.seen = 1]
     ELSE IF s.seen = 1 /\ s.amount2 = "" THEN
          [s EXCEPT !.amount2 = "1.000000", !.currency2 = e.symbol, !.seen = 2,
                    !.type = IF \/ (LowerAddr(first.from) = w /\ in)
                                \/ (out /\ LowerAddr(first.to) = w)
                             THEN "swap" ELSE @]
     ELSE [s EXCEPT !.seen = @ + 1]

\* Ronin: amounts only; the type stays what the address comparison gave.
RoninTransfer(t, s, e) ==
  IF s.amount \in {"", "0"}
  THEN [s EXCEPT !.amount = "1.000000", !.currency = e.symbol, !.from = e.from, !.to = e.to,
                 !.seen = @ + 1]
  ELSE IF s.amount2 = ""
  THEN [s EXCEPT !.amount2 = "1.000000", !.currency2 = e.symbol, !.seen = @ + 1]
  ELSE [s EXCEPT !.seen = @ + 1]

Transfer(t, s, e) ==
  IF t.chain = "tezos" THEN TezosTransfer(t, s, e)
  ELSE IF t.chain = "celo" THEN CeloTransfer(t, s, e)
  ELSE RoninTransfer(t, s, e)

RECURSIVE Transfers(_, _, _)
Transfers(t, s, i) ==
  IF i > Len(t.transfers) THEN s ELSE Transfers(t, Transfer(t, s, t.transfers[i]), i + 1)

NativeCurrency(c) == IF c = "tezos" THEN "XTZ" ELSE IF c = "celo" THEN "CELO" ELSE "RON"

TezosParseTransaction(t) ==
  IF t.kind = "none"
  THEN Parsed(t, "unknown", "", "", "", "XTZ", "", "", <<"unknown", "[TX:", t.hash, "]">>)
  ELSE LET s == Transfers(t, Fields(Direction(t), t.from, t.to, NativeAmount(t), "XTZ", "", "", 0), 1)
       IN Parsed(t, s.type, s.from, s.to, s.amount, s.currency, s.amount2, s.currency2,
                 <<s.type, "[TX:", t.hash, "]">>)

\* Celo types a transaction by its native amount, else by its first token
\* transfer, else (no amount at all) by the address comparison.
CeloParseTransaction(t) ==
  IF t.kind = "none"
  THEN Parsed(t, "unknown", "", "", "", "CELO", "", "", <<"unknown", "[TX:", t.hash, "]">>)
  ELSE LET out == LowerAddr(t.from) = LowerAddr(t.wallet)
           in == LowerAddr(t.to) = LowerAddr(t.wallet)
           byAddress(old) == IF out THEN "send" ELSE IF in THEN "receive" ELSE old
           ty0 == IF NativeAmount(t) # "" THEN byAddress("unknown") ELSE "unknown"
           s == Transfers(t, Fields(ty0, t.from, t.to, NativeAmount(t), "CELO", "", "", 0), 1)
           ty == IF s.amount = "" /\ s.seen = 0 THEN byAddress(s.type) ELSE s.type
       IN Parsed(t, ty, s.from, s.to, s.amount, s.currency, s.amount2, s.currency2,
                 <<ty, "[TX:", t.hash, "]">>)

RoninParseTransaction(t) ==
  IF t.kind = "none"
  THEN Parsed(t, "unknown", "", "", "", "RON", "", "", <<"unknown", "-", t.hash>>)
  ELSE LET s == Transfers(t, Fields(Direction(t), t.from, t.to, NativeAmount(t), "RON", "", "", 0), 1)
       IN Parsed(t, s.type, s.from, s.to, s.amount, s.currency, s.amount2, s.currency2,
                 <<s.type, "-", t.hash>>)

\* handler.parse(tx, address): one parser applied to one transaction
Classified(result) ==
  /\ phase = "parse"
  /\ phase' = "done" /\ parsed' = result
  /\ UNCHANGED <<adapter, ep, osm, br, outcome, meta, resultCount, delivered, transactions,
                 pace, progress, cache, resolved, submit, tx, rows, csv, tick>>

OsmosisParse == tx.chain = "osmosis" /\ Classified(OsmosisParseTransaction(tx))
CelestiaParse == tx.chain = "celestia" /\ Classified(CelestiaParseTransaction(tx))
NearParse == tx.chain = "near" /\ Classified(NearParseTransaction(tx))
TezosParse == tx.chain = "tezos" /\ Classified(TezosParseTransaction(tx))
CeloParse == tx.chain = "celo" /\ Classified(CeloParseTransaction(tx))
RoninParse == tx.chain = "ronin" /\ Classified(RoninParseTransaction(tx))

\* Everything but tx and phase as a call of fetchAll leaves it at the start.
Idle ==
  /\ ep = 1
  /\ osm = NewOsm
  /\ outcome = "pending"
  /\ meta = NoMeta
  /\ resultCount = 0
  /\ delivered = <<>>
  /\ transactions = <<>>
  /\ pace = NoPace
  /\ progress = 0
  /\ cache = NoCache
  /\ resolved = {}
  /\ submit = NoSubmit

InitParse ==
  /\ tx \in Inputs
  /\ adapter = tx.chain
  /\ br = InitBranches(adapter)
  /\ phase = "parse"
  /\ parsed = NoTx /\ rows = <<>> /\ csv = <<>> /\ tick = 0
  /\ Idle

NextParse ==
  \/ OsmosisParse \/ CelestiaParse \/ NearParse \/ TezosParse \/ CeloParse \/ RoninParse

SpecParse == InitParse /\ [][NextParse]_vars

\* ==================================================== the amount formatters
\* formatAmount (Osmosis), the token amount of Tezos's parseTransaction and
\* formatTokenAmount (NEAR), applied to one raw integer string. An integer
\* is two limbs, hi * 10^8 + lo, so that values around 2^53 fit.
Limbs(n) == [hi |-> 0, lo |-> n]
TwoTo53 == [hi |-> 90071992, lo |-> 54740992]

SmallRaws == {Limbs(n) : n \in {0, 1, 5, 49, 100, 123, 999999, 1000000, 12345678}}
LargeRaws == {[TwoTo53 EXCEPT !.lo = @ + k] : k \in 0..3}
DecimalsSeen == {0, 6, 8}

\* Number(x), parseFloat(x), parseInt(x, 10) of an integer literal below
\* 2^54: exact up to 2^53, then the nearest even integer, ties to the one
\* whose mantissa is even.
ToDouble(r) ==
  LET large == r.hi > TwoTo53.hi \/ (r.hi = TwoTo53.hi /\ r.lo >= TwoTo53.lo)
  IN IF ~large \/ r.lo % 2 = 0 THEN r
     ELSE IF (r.lo + 1) % 4 = 0 THEN [r EXCEPT !.lo = @ + 1]
     ELSE [r EXCEPT !.lo = @ - 1]

\* A decimal string: the integer part, the number of fraction digits, the
\* fraction digits as a number.
Display(w, p, f) == [chain |-> "amount", whole |-> w, places |-> p, frac |-> f]

\* x.toFixed(0) of an integral double
ToFixed0(r) == Display(r, 0, 0)

\* (x / 10^d).toFixed(6) of an integral double x: six fraction digits,
\* rounded to the nearest when d > 6. With d > 0, x is below 10^8.
ToFixed6(r, d) ==
  IF d = 0 THEN Display(r, 6, 0)
  ELSE IF d <= 6 THEN Display(Limbs(r.lo \div 10^d), 6, (r.lo % 10^d) * 10^(6 - d))
  ELSE LET cut == 10^(d - 6)
           n == (r.lo \div cut) + (IF 2 * (r.lo % cut) >= cut THEN 1 ELSE 0)
       IN Display(Limbs(n \div 10^6), 6, n % 10^6)

\* Osmosis: const num = parseInt(amount, 10); (num / 1_000_000).toFixed(6)
FormatAmount(raw) == ToFixed6(ToDouble(raw), 6)

\* Tezos: parseFloat(value) / Math.pow(10, decimals), then toFixed(0) when
\* decimals === 0, else toFixed(6)
TezosTokenAmount(raw, decimals) ==
  IF decimals = 0 THEN ToFixed0(ToDouble(raw)) ELSE ToFixed6(ToDouble(raw), decimals)

\* NEAR: Number(BigInt(amount)) / Number(BigInt(10 ** Math.min(decimals, 18))),
\* then toFixed(6)
FormatTokenAmount(raw, decimals) == ToFixed6(ToDouble(raw), IF decimals < 18 THEN decimals ELSE 18)

Formatted(result) ==
  /\ phase = "format"
  /\ phase' = "done" /\ parsed' = result
  /\ UNCHANGED <<adapter, ep, osm, br, outcome, meta, resultCount, delivered, transactions,
                 pace, progress, cache, resolved, submit, tx, rows, csv, tick>>

OsmosisFormat == tx.formatter = "formatAmount" /\ Formatted(FormatAmount(tx.raw))
TezosFormat == tx.formatter = "tezos" /\ Formatted(TezosTokenAmount(tx.raw, tx.decimals))
NearFormat ==
  tx.formatter = "formatTokenAmount" /\ Formatted(FormatTokenAmount(tx.raw, tx.decimals))

\* Large integers are tried with decimals 0 only; uosmo has six decimals.
AmountInputs ==
  {[chain |-> "amount", formatter |-> f, raw |-> r, decimals |-> d] :
      f \in {"tezos", "formatTokenAmount"}, r \in SmallRaws, d \in DecimalsSeen}
  \cup {[chain |-> "amount", formatter |-> f, raw |-> r, decimals |-> 0] :
      f \in {"tezos", "formatTokenAmount"}, r \in LargeRaws}
  \cup {[chain |-> "amount", formatter |-> "formatAmount", raw |-> r, decimals |-> 6] :
      r \in SmallRaws}

InitAmt ==
  /\ tx \in AmountInputs
  /\ adapter \in {"osmosis", "tezos", "near"}
  /\ (adapter = "osmosis") = (tx.formatter = "formatAmount")
  /\ (adapter = "tezos") = (tx.formatter = "tezos")
  /\ br = InitBranches(adapter)
  /\ phase = "format"
  /\ parsed = NoTx /\ rows = <<>> /\ csv = <<>> /\ tick = 0
  /\ Idle

NextAmt == OsmosisFormat \/ TezosFormat \/ NearFormat

SpecAmt == InitAmt /\ [][NextAmt]_vars

\* ============================================================ the CSV export
\* convertToAwakenCSV and generateCSVContent. A string is a sequence of
\* characters; a word without special characters counts as one character.
MaxRows == 2
MaxNote == 2

Comma == ","
Quote == "\""
LF == "\n"
CR == "\r"
NoteChars == {"a", Comma, Quote, LF, CR}
Memos == UNION {[1..n -> NoteChars] : n \in 0..MaxNote}

\* The classified transactions offered for export: one asset, or the two
\* assets of a swap.
Exported ==
  {[type |-> ty, amount |-> <<"1">>, currency |-> <<"A">>, amount2 |-> <<>>, currency2 |-> <<>>,
    hash |-> <<"0xHASH">>, memo |-> n] : ty \in {"send", "receive", "swap", "delegate"}, n \in Memos}
  \cup {[type |-> "swap", amount |-> <<"1">>, currency |-> <<"A">>, amount2 |-> <<"2">>,
         currency2 |-> <<"B">>, hash |-> <<"0xHASH">>, memo |-> n] : n \in Memos}
ExportLists == UNION {[1..n -> Exported] : n \in 0..MaxRows}

\* Object.keys(rows[0]): the columns in the order of the object literal
Headers ==
  << <<"Date">>, <<"Received Quantity">>, <<"Received Currency">>, <<"Received Fiat Amount">>,
     <<"Sent Quantity">>, <<"Sent Currency">>, <<"Sent Fiat Amount">>, <<"Fee Amount">>,
     <<"Fee Currency">>, <<"Transaction Hash">>, <<"Notes">>, <<"Tag">> >>

MapTransactionTypeToTag(type) ==
  CASE type \in {"send", "receive", "ibc_transfer"} -> <<"transfer">>
    [] type = "swap" -> <<"trade">>
    [] type \in {"delegate", "undelegate"} -> <<"staking">>
    [] type = "claim_rewards" -> <<"income">>
    [] type = "pool_deposit" -> <<"deposit">>
    [] type = "pool_withdraw" -> <<"withdrawal">>
    [] OTHER -> <<"other">>

\* One AwakenTaxRow, its values in the order of Headers.
AwakenTaxRow(t) ==
  LET received == t.type = "receive"
      sent == t.type = "send"
  IN << <<"date">>,
        IF received THEN t.amount ELSE <<>>, IF received THEN t.currency ELSE <<>>, <<>>,
        IF sent THEN t.amount ELSE <<>>, IF sent THEN t.currency ELSE <<>>, <<>>,
        <<>>, <<>>, t.hash, t.memo, MapTransactionTypeToTag(t.type) >>

ConvertToAwakenCSVRows(ts) == [i \in 1..Len(ts) |-> AwakenTaxRow(ts[i])]

\* value.replace(/"/g, '""')
RECURSIVE DoubleQuotes(_)
DoubleQuotes(v) ==
  IF v = <<>> THEN <<>>
  ELSE (IF Head(v) = Quote THEN <<Quote, Quote>> ELSE <<Head(v)>>) \o DoubleQuotes(Tail(v))

\* a value with a comma, a quote or "\n" is wrapped in quotes
Escaped(v) ==
  IF \E i \in 1..Len(v) : v[i] \in {Comma, Quote, LF}
  THEN <<Quote>> \o DoubleQuotes(v) \o <<Quote>>
  ELSE v

\* Array.prototype.join
RECURSIVE Join(_, _)
Join(parts, sep) ==
  IF parts = <<>> THEN <<>>
  ELSE IF Len(parts) = 1 THEN parts[1]
  ELSE parts[1] \o <<sep>> \o Join(Tail(parts), sep)

CSVContent(rs) ==
  IF rs = <<>> THEN <<>>
  ELSE Join(<<Join(Headers, Comma)>>
            \o [i \in 1..Len(rs) |-> Join([j \in 1..Len(Headers) |-> Escaped(rs[i][j])], Comma)],
            LF)

ConvertToAwakenCSV ==
  /\ phase = "export"
  /\ rows' = ConvertToAwakenCSVRows(parsed)
  /\ phase' = "rows"
  /\ UNCHANGED <<adapter, ep, osm, br, outcome, meta, resultCount, delivered, transactions,
                 pace, progress, cache, resolved, submit, tx, parsed, csv, tick>>

GenerateCSVContent ==
  /\ phase = "rows"
  /\ csv' = CSVContent(rows)
  /\ phase' = "done"
  /\ UNCHANGED <<adapter, ep, osm, br, outcome, meta, resultCount, delivered, transactions,
                 pace, progress, cache, resolved, submit, tx, parsed, rows, tick>>

InitCsv ==
  /\ parsed \in ExportLists
  /\ adapter = "osmosis"
  /\ br = InitBranches(adapter)
  /\ phase = "export"
  /\ tx = NoTx /\ rows = <<>> /\ csv = <<>> /\ tick = 0
  /\ Idle

NextCsv == ConvertToAwakenCSV \/ GenerateCSVContent

SpecCsv == InitCsv /\ [][NextCsv]_vars

\* ===================================================== termination (SpecLive)
\* The page loops again, followed for as long as they run. Counters that no
\* page limit bounds stop counting at a ceiling: the consecutive failures of
\* a page at FailCap, and for the Osmosis loop, whose cursor has no limit,
\* the pages at OsmosisPageCap and the map's size at LiveSizeCap. tick flips
\* with every request sent, so that a repeated request is a step.
LiveSizeCap == NumQueries * OsmosisPageCap * PageSize

Capped(s) ==
  [s EXCEPT !.fails = Min(@, FailCap), !.page = IF adapter = "osmosis" THEN Min(@, OsmosisPageCap) ELSE @,
            !.pages = IF adapter = "osmosis" THEN Min(@, OsmosisPageCap) ELSE @]

\* Settle without the bound on failures
LiveSettle(b, s2) ==
  LET b1 == [br EXCEPT ![b] = Capped(s2)]
      b2 == IF s2.status \in Ended /\ s2.status # "threw" /\ Sequential(adapter)
               /\ b < NumBranches(adapter)
            THEN [b1 EXCEPT ![b + 1].status = "active"] ELSE b1
  IN /\ br' = b2
     /\ tick' = 1 - tick
     /\ IF s2.status = "threw"
        THEN phase' = "done" /\ outcome' = "error"
        ELSE UNCHANGED <<phase, outcome>>
     /\ UNCHANGED <<adapter, tx, parsed, rows, csv, submit, cache, resolved, ep, osm, meta,
                    resultCount, delivered, transactions>>

\* One pass of loop b of the adapter with answer r
Pass(b, s2, r) == LiveSettle(b, s2) /\ Paced(b, r, s2)

LiveCelestiaPage ==
  /\ adapter = "celestia" /\ phase = "run" /\ br[1].status = "active"
  /\ \E r \in Responses : Pass(1, CelestiaBody(br[1], r), r)

LiveNearPage ==
  /\ adapter = "near" /\ phase = "run" /\ br[1].status = "active"
  /\ \E r \in Responses : Pass(1, NearBody(br[1], r), r)

LiveRoninPage ==
  /\ adapter = "ronin" /\ phase = "run" /\ br[1].status = "active"
  /\ \E r \in Responses : Pass(1, RoninBody(br[1], r), r)

LiveExplorerPage ==
  /\ adapter = "explorer" /\ phase = "run" /\ br[1].status = "active"
  /\ \E r \in Responses : Pass(1, ExplorerBody(br[1], r), r)

LiveCeloPage ==
  /\ adapter = "celo" /\ phase = "run"
  /\ \E b \in 1..2 : /\ br[b].status = "active"
                     /\ \E r \in Responses : Pass(b, CeloBody(br[b], r), r)

LiveTezosPage ==
  /\ adapter = "tezos" /\ phase = "run"
  /\ \E b \in 1..3 : /\ br[b].status = "active"
                     /\ \E r \in Responses : Pass(b, TezosBody(br[b], r), r)

\* OsmosisPage without the bound on pages
LiveOsmosisPage ==
  /\ adapter = "osmosis" /\ phase = "run"
  /\ \E q \in 1..NumQueries :
       /\ br[q].status = "active"
       /\ \E r \in BatchAnswers, t \in Totals, new \in 0..PageSize :
            /\ new \in {0, r.n}
            /\ (osm.size = 0 => new = r.n)
            /\ (t # 0 => r.n > 0 /\ br[q].page = 0)
            /\ LET s2 == OsmosisBody(br[q], r, t)
                   ended == s2.status \in Ended
                   fetched == ended /\ s2.pages > 0
                   b1 == [br EXCEPT ![q] = IF ended THEN OutOfScope(s2) ELSE Capped(s2)]
                   o1 == [osm EXCEPT
                            !.size = Min(@ + new, LiveSizeCap),
                            !.bad = @ \/ (new > 0 /\ r.badAt > 0),
                            !.endpointSuccess = @ \/ fetched,
                            !.lastSuccessfulEndpoint = IF fetched THEN ep ELSE @,
                            !.queriesWithData = IF fetched /\ s2.total > 0 THEN @ + 1 ELSE @]
                   last == ended /\ q = NumQueries
                   p1 == [by |-> q, answer |-> Answer(r),
                          delayed |-> WaitsAfter("osmosis", r, br[q], s2),
                          rested |-> Rested("osmosis", q)]
               IN /\ progress' = IF PageConsumed(br[q], s2) THEN o1.size ELSE progress
                  /\ IF ~ended THEN
                          br' = b1 /\ osm' = o1 /\ pace' = p1 /\ UNCHANGED ep
                     ELSE IF ~last THEN
                          /\ br' = [b1 EXCEPT ![q + 1].status = "active"]
                          /\ osm' = o1 /\ pace' = p1 /\ UNCHANGED ep
                     ELSE IF (o1.endpointSuccess /\ o1.size > 0) \/ ep = NumEndpoints THEN
                          br' = b1 /\ osm' = o1 /\ pace' = p1 /\ UNCHANGED ep
                     ELSE /\ br' = InitBranches("osmosis")
                          /\ ep' = ep + 1
                          /\ osm' = [o1 EXCEPT !.endpointSuccess = FALSE]
                          /\ pace' = [p1 EXCEPT !.by = 0]
       /\ tick' = 1 - tick
       /\ UNCHANGED <<adapter, tx, parsed, rows, csv, submit, cache, resolved, phase, outcome,
                      meta, resultCount, delivered, transactions>>

NextLive ==
  \/ LiveCelestiaPage \/ LiveNearPage \/ LiveRoninPage \/ LiveExplorerPage \/ LiveCeloPage
  \/ LiveTezosPage \/ LiveOsmosisPage \/ LcdEndpoint
  \/ CelestiaFinish \/ NearFinish \/ RoninFinish \/ ExplorerFinish \/ OsmosisFinish
  \/ CeloFinish \/ TezosFinish

\* Every awaited request is answered and the event loop then runs the
\* continuation: a call that can take a step takes one.
SpecLive == Init /\ [][NextLive]_vars /\ WF_vars(NextLive)

\* ================================================================ properties
Settled == phase = "done"
Returned == outcome = "returned"
MultiStrategy == {"celo", "tezos", "osmosis", "lcd"}
Active == 1..NumBranches(adapter)

\* C1: a page request that fails with a transient error (an HTTP error
\* status such as 429 or 5xx, or a rejected fetch) is retried at most
\* MaxConsecutiveErrors consecutive times in every adapter's page loop.
\* Celestia's loop retries a 429 answer without counting.
C1_RetryBounded ==
  \A b \in Branches : br[b].fails <= MaxConsecutiveErrors

\* The page limit an adapter declares; the fallback asks one page per query.
PageLimit(a) ==
  CASE a = "celestia" -> CelestiaMaxPages
    [] a = "ronin" -> RoninMaxPages
    [] a = "tezos" -> TezosMaxPages
    [] a = "near" -> NearMaxPages
    [] a = "celo" -> CeloMaxPages
    [] a = "explorer" -> ExplorerMaxPages
    [] a = "lcd" -> 1

LargestPageLimit == ExplorerMaxPages

C3_ThrowsOnlyWhenEmpty ==
  (outcome = "error" /\ ~AnyBad) => TotalAcc = 0

\* C4: when every branch ended in a hard failure with zero records the call
\* ends with an error, and when every branch was exhausted with zero records
\* (an empty wallet) it ends successfully with an empty list.
C4_FailureDistinctFromEmpty ==
  (Settled /\ TotalAcc = 0) =>
     /\ (\A b \in Active : br[b].status = "failed") => outcome = "error"
     /\ (\A b \in Active : br[b].status = "exhausted") => (Returned /\ resultCount = 0)

\* C5: in a multi-strategy adapter every branch is fetched whatever happened
\* to the others, and the records a branch obtained make the call return
\* (stated for executions in which every timestamp parses).
C5_BranchesIndependent ==
  (Settled /\ adapter \in MultiStrategy /\ ~AnyBad) =>
     /\ \A b \in Active : br[b].status \in Ended
     /\ TotalAcc > 0 => Returned

\* The names under which a metadata object could state completeness.
CompletenessFields ==
  {"complete", "incomplete", "isComplete", "partial", "truncated", "branches", "errors"}

\* C6: a non-empty result with a branch that stopped on a failed page or on
\* the page limit carries metadata that marks it incomplete.
C6_PartialIsMarked ==
  (Returned /\ resultCount > 0
     /\ \E b \in Active : br[b].status \in {"failed", "limit"})
  => (DOMAIN meta \cap CompletenessFields # {})

\* C7: the returned list holds no two entries with the same hash.
C7_OneEntryPerHash ==
  Returned =>
    \A i, j \in 1..Len(transactions) :
      transactions[i].hash = transactions[j].hash => i = j

AllParsable == \A i \in 1..Len(delivered) : delivered[i].ts.kind = "ok"

\* C8: a hash kept once in the result is represented by the instance that
\* was processed last (stated for deliveries whose timestamps all parse).
C8_LastInstanceWins ==
  (Returned /\ AllParsable) =>
    \A k \in 1..Len(transactions) :
      (\A l \in 1..Len(transactions) : transactions[l].hash = transactions[k].hash => l = k)
      => \A i \in 1..Len(delivered) :
           delivered[i].hash = transactions[k].hash => i <= transactions[k].from

\* C9: in the returned list every entry's time is defined and not older
\* than that of the entry after it.
C9_NewestFirst ==
  Returned =>
    \A k \in 1..(Len(transactions) - 1) :
      /\ ~IsNaN(transactions[k].ts) /\ ~IsNaN(transactions[k + 1].ts)
      /\ transactions[k].ts.t >= transactions[k + 1].ts.t

\* C10: aggregation never raises because of a timestamp, every entry built
\* from a record whose timestamp is missing or unparsable carries the
\* sentinel (the fetch time), and such a record's hash is in the result
\* unless the fallback's slice to the limit cut the list.
C10_BadTimestampCarried ==
  (Settled /\ phase = "done" /\ delivered # <<>>) =>
     /\ Returned
     /\ \A k \in 1..Len(transactions) :
          IsNaN(delivered[transactions[k].from].ts) => transactions[k].ts = Now
     /\ \A i \in 1..Len(delivered) :
          IsNaN(delivered[i].ts) =>
             \/ \E k \in 1..Len(transactions) : transactions[k].hash = delivered[i].hash
             \/ (adapter = "lcd" /\ Len(transactions) = PageSize)

\* C11: a record without identity is omitted, every well-formed record of the
\* same and of later pages is kept, and fetchAll raises no error.
C11_OnlyBadRecordDropped ==
  (phase = "done" /\ Len(delivered) > 0) =>
     /\ outcome = "returned"
     /\ \A i \in 1..Len(delivered) :
          (delivered[i] = "ok") =>
             (\E k \in 1..Len(transactions) : transactions[k].from = i)
     /\ \A k \in 1..Len(transactions) : transactions[k].identified

\* The latest page request got a page (not a failure) from a branch.
GotPage == pace.by # 0 /\ pace.answer \in {"full", "short", "empty"}

\* C12: once a branch has received its last page (short, empty, or the one
\* that reaches the limit or the declared total) it finishes without
\* executing a rate-limit wait.
C12_NoWaitAfterFinalPage ==
  (GotPage /\ br[pace.by].status \in {"exhausted", "limit"}) => ~pace.delayed

\* C13: every page request is separated by the adapter's wait from the
\* previous request to the same provider, whichever branch issued that one.
C13_RequestsSpaced == pace.rested

C19_OneRequestAtATime ==
  phase = "run" =>
     Cardinality({b \in 1..NumBranches(adapter) : br[b].status = "active"}) <= 1

\* C19, amended: within one branch a loop pass either consumes its page and
\* moves the cursor to the next page, or leaves both where they were.
C19_BranchCursorAdvances ==
  [][\A b \in Branches :
       (br[b].status = "active" /\ br'[b].status = "active" /\ ep' = ep) =>
          \/ br'[b].page = br[b].page /\ br'[b].pages = br[b].pages
          \/ br'[b].page = br[b].page + 1 /\ br'[b].pages = br[b].pages + 1]_vars

C19_ThirdPageNext ==
  \E b \in Branches :
     br[b].status = "active" /\ br[b].pages = 2 /\ br[b].page = FirstPage(adapter) + 2

\* C20: the count passed to onProgress never exceeds the number of records
\* accumulated so far, and the last one reported before fetchAll returns is
\* the total accumulated across all branches.
C20_ProgressIsCumulative ==
  adapter # "lcd" =>
     /\ progress <= TotalAcc
     /\ (phase = "done" /\ outcome = "returned" => progress = TotalAcc)

\* Two spellings name the same token contract: EVM addresses are
\* case-insensitive, Tezos addresses are not.
SameContract(c1, c2) == IF adapter = "tezos" THEN c1 = c2 ELSE Lower(c1) = Lower(c2)

\* C15: within one session every lookup of one token contract resolves to the
\* same symbol, whatever ticker the records carry and in whatever order they
\* are processed.
C15_OneSymbolPerContract ==
  \A x \in resolved, y \in resolved :
     SameContract(x.contract, y.contract) => x.symbol = y.symbol

\* C16: an entry of the token cache is never replaced by a different value
\* and never removed.
C16_CacheAppendOnly ==
  [][\A k \in DOMAIN cache : cache[k] # NoEntry => cache'[k] = cache[k]]_vars

C16_SecondTickerSeen ==
  \E x \in resolved, y \in resolved :
     /\ Lower(x.contract) = Lower(y.contract)
     /\ x.api = "A" /\ y.api = "B"
     /\ cache[Lower(x.contract)] # NoEntry

Classifies == phase = "done" /\ parsed.chain # "none" /\ ~parsed.threw

\* A plain transfer: a send message, no token transfer, no invocation signal.
PlainTransfer == tx.kind = "MsgSend" /\ tx.transfers = <<>> /\ tx.inv = ""
FromWallet == LowerAddr(tx.from) = LowerAddr(tx.wallet)
ToWallet == LowerAddr(tx.to) = LowerAddr(tx.wallet)

\* C21: a plain transfer from the wallet to another address is typed send,
\* one from another address to the wallet receive, addresses compared
\* without regard to case.
C21_DirectionRule ==
  (Classifies /\ PlainTransfer) =>
     /\ (FromWallet /\ ~ToWallet => parsed.type = "send")
     /\ (ToWallet /\ ~FromWallet => parsed.type = "receive")

\* C22: a plain transfer from the wallet to itself is typed send by every
\* chain's parser.
C22_SelfTransferIsSend ==
  (Classifies /\ PlainTransfer /\ FromWallet /\ ToWallet) => parsed.type = "send"

\* The type a message kind stands for.
KindType(k) ==
  CASE k \in {"MsgDelegate", "stake"} -> "delegate"
    [] k = "MsgUndelegate" -> "undelegate"
    [] k = "MsgWithdrawDelegatorReward" -> "claim_rewards"
    [] k = "MsgVote" -> "governance_vote"
    [] k = "MsgJoinPool" -> "pool_deposit"
    [] k = "MsgExitPool" -> "pool_withdraw"
    [] k \in {"MsgSwapExactAmountIn", "swap"} -> "swap"
    [] OTHER -> "any"

\* C23: a delegate, undelegate, reward-claim, vote, pool or swap message sets
\* the type, whatever the addresses, the invocation signal and the transfers.
C23_KindOverrides ==
  (Classifies /\ KindType(tx.kind) # "any") => parsed.type = KindType(tx.kind)

\* Two transfers of distinct tokens, one leaving the wallet, one reaching it.
TwoAssetSwap ==
  /\ Len(tx.transfers) = 2
  /\ tx.transfers[1].symbol # tx.transfers[2].symbol
  /\ \E i \in 1..2 :
       /\ LowerAddr(tx.transfers[i].from) = LowerAddr(tx.wallet)
       /\ LowerAddr(tx.transfers[i].to) # LowerAddr(tx.wallet)
       /\ LowerAddr(tx.transfers[3 - i].to) = LowerAddr(tx.wallet)
       /\ LowerAddr(tx.transfers[3 - i].from) # LowerAddr(tx.wallet)

\* C24: such a transaction is typed swap with both amount pairs filled,
\* with or without a native amount, in either order of the transfers.
C24_TwoAssetsAreSwap ==
  (Classifies /\ tx.kind # "none" /\ TwoAssetSwap) =>
     /\ parsed.type = "swap"
     /\ parsed.amount # "" /\ parsed.currency # ""
     /\ parsed.amount2 # "" /\ parsed.currency2 # ""

\* C25: the notes of every classified transaction hold the whole hash.
C25_NotesHoldHash ==
  Classifies => \E i \in 1..Len(parsed.notes) : parsed.notes[i] = tx.hash

\* C26: the parser returns, with a type of the enumeration, whatever the
\* transaction is: no message, no events, no fee, amounts that are no numbers.
C26_ClassifierTotal ==
  (phase = "done" /\ parsed.chain # "none") => ~parsed.threw /\ parsed.type \in Types

\* The string d shows the number n / 10^k: any digits beyond its own
\* fraction digits are zero in n.
Shows(d, n, k) ==
  /\ d.whole = Limbs(n \div 10^k)
  /\ IF k <= d.places THEN d.frac = (n % 10^k) * 10^(d.places - k)
     ELSE (n % 10^k) = d.frac * 10^(k - d.places)

\* C27: the displayed amount is the raw integer over 10^decimals, and with
\* decimals 0 it is the raw integer string itself, above 2^53 too.
C27_ScalingExact ==
  (phase = "done" /\ parsed.chain = "amount") =>
     IF tx.decimals = 0 THEN parsed = Display(tx.raw, 0, 0)
     ELSE Shows(parsed, tx.raw.lo, tx.decimals)

Column(name) == CHOOSE j \in 1..Len(Headers) : Headers[j] = <<name>>

\* C28: a receive row fills the Received pair only, a send row the Sent pair
\* only, a swap of two assets fills both pairs, any other row neither.
C28_ColumnsFollowType ==
  phase \in {"rows", "done"} /\ Len(rows) = Len(parsed) =>
    \A i \in 1..Len(rows) :
      LET t == parsed[i]
          rq == rows[i][Column("Received Quantity")]
          rc == rows[i][Column("Received Currency")]
          sq == rows[i][Column("Sent Quantity")]
          sc == rows[i][Column("Sent Currency")]
      IN CASE t.type = "receive" -> rq = t.amount /\ rc = t.currency /\ sq = <<>> /\ sc = <<>>
           [] t.type = "send" -> sq = t.amount /\ sc = t.currency /\ rq = <<>> /\ rc = <<>>
           [] t.type = "swap" /\ t.amount2 # <<>> ->
                rq # <<>> /\ rc # <<>> /\ sq # <<>> /\ sc # <<>>
           [] OTHER -> rq = <<>> /\ rc = <<>> /\ sq = <<>> /\ sc = <<>>

\* A reader of RFC 4180 text: fields split at commas, records at a line
\* break (LF, CR or CR LF), both only outside quotes; a doubled quote inside
\* quotes is one quote. mode is "start" (a field begins), "plain", "quoted"
\* or "closed" (a quote seen inside quotes).
RECURSIVE Read(_, _, _, _, _)
Read(text, mode, field, record, records) ==
  IF text = <<>> THEN records \o << record \o <<field>> >>
  ELSE
    LET c == Head(text)
        rest == Tail(text)
        afterBreak == IF c = CR /\ rest # <<>> /\ Head(rest) = LF THEN Tail(rest) ELSE rest
    IN IF mode = "quoted" THEN
            IF c = Quote THEN Read(rest, "closed", field, record, records)
            ELSE Read(rest, "quoted", field \o <<c>>, record, records)
       ELSE IF mode = "closed" /\ c = Quote THEN
            Read(rest, "quoted", field \o <<Quote>>, record, records)
       ELSE IF mode = "start" /\ c = Quote THEN Read(rest, "quoted", field, record, records)
       ELSE IF c = Comma THEN Read(rest, "start", <<>>, record \o <<field>>, records)
       ELSE IF c \in {CR, LF} THEN
            Read(afterBreak, "start", <<>>, <<>>, records \o << record \o <<field>> >>)
       ELSE Read(rest, "plain", field \o <<c>>, record, records)

ReadCsv(text) == IF text = <<>> THEN <<>> ELSE Read(text, "start", <<>>, <<>>, <<>>)

\* C29: reading the serializer's text gives back the header and every row,
\* field by field.
C29_RoundTrip ==
  phase = "done" /\ tx = NoTx /\ Len(rows) = Len(parsed) =>
    ReadCsv(csv) = (IF rows = <<>> THEN <<>> ELSE <<Headers>> \o rows)

\* C30: every call of fetchAll settles, whatever the provider answers and
\* for however long: full pages, 429 or unparsable bodies without end.
C30_FetchAllSettles == <>Settled

====
